---- MODULE Spec2Model ----
(***************************************************************************)
(* A model of the test-generation driver of testpilot2:                    *)
(*   TestGenerator.generateAndValidateTests / validateCompletion /         *)
(*   refinePrompts, the Prompt and RetryPrompt classes and the four        *)
(*   prompt refiners.                                                      *)
(* Prompts are objects with identity: they live in `heap` and are named by *)
(* their index there, because the driver mutates their provenance lists.   *)
(* Texts (test bodies, completed tests, assembled prompts) are sequences   *)
(* of tokens, so that functions on text are computed, not assumed.         *)
(***************************************************************************)
EXTENDS Integers, Sequences, FiniteSets, TLC

VARIABLES
    fun,                    \* the APIFunction's descriptor: docComment, implementation
    snippets,               \* snippetMap(fun.functionName) ?? []
    tIdx,                   \* index of the current temperature in this.temperatures
    pc,                     \* position of generateAndValidateTests
    heap,                   \* the Prompt objects created so far
    worklist,               \* the run's worklist (indices into heap)
    generatedPrompts,       \* the run's Map<string, Prompt>, as a sequence of entries
    generatedPassingTests,  \* the run's flag
    prompt,                 \* the prompt popped from the worklist (0: none)
    rawCompletions,         \* the model's answer, each raw completion already extracted
    rawIdx,                 \* position of the outer for loop in rawCompletions
    testIdx,                \* position of the inner for loop in the current test set
    collector,              \* the ITestResultCollector's records
    budget,                 \* how many more candidates the model will produce
    queryLog,               \* history: the calls of model.completions
    validateLog,            \* history: the calls of validator.validateTest
    validated,              \* history: positions <<raw, test>> validated for this query
    passedAt,               \* history: positions whose candidate came back PASSED
    passingBefore,          \* history: generatedPassingTests when the answer arrived
    lastCall,               \* history: what the last validateCompletion did
    files,                  \* the template files that can be read
    vocabulary,             \* the candidate texts the model's answers are made of
    arg,                    \* a function called on its own: its name and arguments
    ret,                    \* what that call returned or threw
    invocations             \* the calls of generateAndValidateTests in progress

vars == <<fun, snippets, tIdx, pc, heap, worklist, generatedPrompts,
          generatedPassingTests, prompt, rawCompletions, rawIdx, testIdx,
          collector, budget, queryLog, validateLog, validated, passedAt,
          passingBefore, lastCall, files, vocabulary, arg, ret, invocations>>

(***************************************************************************)
(* Bounds of the model.                                                    *)
(***************************************************************************)
NumTemps == 2
NumInvocations == 2
MaxRaw == 2
MaxTests == 2
MaxCandidates == 3
MaxCandidatesFair == 2

(***************************************************************************)
(* Helpers.                                                                *)
(***************************************************************************)
Range(s) == {s[i] : i \in 1..Len(s)}

NoDup(s) == \A i, j \in 1..Len(s) : i # j => s[i] # s[j]

SeqsUpTo(S, lo, hi) == UNION {[1..n -> S] : n \in lo..hi}

RECURSIVE Flatten(_)
Flatten(ss) == IF ss = <<>> THEN <<>> ELSE Head(ss) \o Flatten(Tail(ss))

MinOf(S) == CHOOSE x \in S : \A y \in S : x <= y

MaxOf(S) == CHOOSE x \in S : \A y \in S : y <= x

\* how a call ends: with a value, or with an error thrown
Return(value) == [state |-> "returned", value |-> value]

Throw(message) == [state |-> "threw", message |-> message]

(***************************************************************************)
(* Text.  A test body is a sequence of tokens: "require" is text holding   *)
(* the word require, "describe(" and "it(" are the literal markers, "nl"   *)
(* is a line break, "sp" is other white space, "})" closes one header,     *)
(* "unbalanced" is a bracket that cannot be closed, anything else is code. *)
(***************************************************************************)
NoSource == <<"undefined">>

WhiteSpace == {"sp", "nl"}

Openers == {"describe(", "it(", "describe('test suite'", "it('test case'",
            "suiteHeader", "testHeader", "suiteHeader of pkg2",
            "testHeader of pkg.other", "testHeader of pkg2.fn"}

imports == <<"imports">>

suiteHeader == <<"suiteHeader">>

testHeader == <<"testHeader">>

RECURSIVE TrimStart(_)
TrimStart(s) ==
    IF s # <<>> /\ Head(s) \in WhiteSpace THEN TrimStart(Tail(s)) ELSE s

RECURSIVE TrimEnd(_)
TrimEnd(s) ==
    IF s # <<>> /\ s[Len(s)] \in WhiteSpace
    THEN TrimEnd(SubSeq(s, 1, Len(s) - 1))
    ELSE s

trim(s) == TrimEnd(TrimStart(s))

\* the tokens whose text ends with a line break: the import block and the
\* suite and test headers, those of completeTest and those of a prompt
EndLine == {"imports", "imports of pkg2", "describe('test suite'", "it('test case'",
            "suiteHeader", "suiteHeader of pkg2", "testHeader",
            "testHeader of pkg.other", "testHeader of pkg2.fn"}

\* String.split('\n')[0]
RECURSIVE FirstLine(_)
FirstLine(s) ==
    IF s = <<>> \/ Head(s) = "nl" THEN <<>>
    ELSE IF Head(s) \in EndLine THEN <<Head(s)>>
    ELSE <<Head(s)>> \o FirstLine(Tail(s))

Count(s, S) == Cardinality({i \in 1..Len(s) : s[i] \in S})

\* the tokens that close one header: "    })" is the one beautify writes
Closers == {"})", "    })"}

\* the tokens whose text holds the word require: the import block starts with
\* a line of require calls
HoldRequire == {"require", "imports", "imports of pkg2"}

\* the tokens whose text holds "describe(": the suite headers do
HoldDescribe == {"describe(", "describe('test suite'", "suiteHeader",
                 "suiteHeader of pkg2"}

\* syntax.closeBrackets: the source with its open brackets closed, or nothing
closeBrackets(code) ==
    LET open == Count(code, Openers) - Count(code, Closers)
    IN  IF "unbalanced" \in Range(code) \/ open < 0
        THEN NoSource
        ELSE code \o [i \in 1..open |-> "})"]

\* String.replace(/\}\)\}\)$/, "    })\n})")
beautify(src) ==
    IF Len(src) >= 2 /\ src[Len(src) - 1] = "})" /\ src[Len(src)] = "})"
    THEN SubSeq(src, 1, Len(src) - 2) \o <<"    })", "nl", "})">>
    ELSE src

\* body.trim().replace(/^(?=\S)/, " ".repeat(8))
indent(body) ==
    IF trim(body) = <<>> THEN <<>> ELSE <<"indent8">> \o trim(body)

codeBeforeClosing_unmodified(body, stubOutHeaders) ==
    IF "describe(" \in Range(body)
    THEN body
    ELSE (IF "require" \notin Range(FirstLine(body)) THEN imports \o <<"nl">> ELSE <<>>)
         \o (IF stubOutHeaders
             THEN <<"describe('test suite'", "it('test case'">>
             ELSE suiteHeader \o testHeader)
         \o indent(body) \o <<"nl">>

\* the functions under test: the function of the run, another function of its
\* package, and a function of another package
TheFunction == [packageName |-> "pkg", accessPath |-> "pkg.fn"]

Functions ==
    {TheFunction,
     [packageName |-> "pkg", accessPath |-> "pkg.other"],
     [packageName |-> "pkg2", accessPath |-> "pkg2.fn"]}

\* the imports, suiteHeader and testHeader the constructor derives from the
\* package name and the access path of a function
importsOf(f) ==
    IF f.packageName = "pkg" THEN imports ELSE <<"imports of pkg2">>

suiteHeaderOf(f) ==
    IF f.packageName = "pkg" THEN suiteHeader ELSE <<"suiteHeader of pkg2">>

testHeaderOf(f) ==
    CASE f.accessPath = "pkg.fn"    -> testHeader
      [] f.accessPath = "pkg.other" -> <<"testHeader of pkg.other">>
      [] f.accessPath = "pkg2.fn"   -> <<"testHeader of pkg2.fn">>

codeOf_importsAlways(f, body, stubOutHeaders) ==
    IF Range(body) \cap HoldDescribe = {}
    THEN importsOf(f) \o <<"nl">>
         \o (IF stubOutHeaders
             THEN <<"describe('test suite'", "it('test case'">>
             ELSE suiteHeaderOf(f) \o testHeaderOf(f))
         \o indent(body) \o <<"nl">>
    ELSE (IF Range(FirstLine(body)) \cap HoldRequire = {}
          THEN importsOf(f) \o <<"nl">> ELSE <<>>)
         \o body

codeOf_ownHeaders(f, body, stubOutHeaders) ==
    (IF "require" \notin Range(FirstLine(body))
     THEN importsOf(f) \o <<"nl">> ELSE <<>>)
        \o (IF "describe(" \notin Range(body)
            THEN suiteHeaderOf(f) \o testHeaderOf(f) \o indent(body) \o <<"nl">>
            ELSE body)

\* completeTest of a prompt for function f, up to the call of closeBrackets:
\* the value of `code` there
codeOf(f, body, stubOutHeaders) ==
    LET code0 == IF Range(FirstLine(body)) \cap HoldRequire = {}
                 THEN importsOf(f) \o <<"nl">>
                 ELSE <<>>
    IN  IF Range(body) \cap HoldDescribe = {}
        THEN code0
             \o (IF stubOutHeaders
                 THEN <<"describe('test suite'", "it('test case'">>
                 ELSE suiteHeaderOf(f) \o testHeaderOf(f))
             \o indent(body) \o <<"nl">>
        ELSE code0 \o body

\* the same for a prompt of the run's function
codeBeforeClosing(body, stubOutHeaders) == codeOf(TheFunction, body, stubOutHeaders)

\* Prompt.completeTest of a prompt for function f
completeTestOf(f, body, stubOutHeaders) ==
    LET fixed == closeBrackets(codeOf(f, body, stubOutHeaders))
    IN  IF fixed = NoSource THEN NoSource ELSE beautify(fixed)

completeTest(body, stubOutHeaders) ==
    LET fixed == closeBrackets(codeBeforeClosing(body, stubOutHeaders))
    IN  IF fixed = NoSource THEN NoSource ELSE beautify(fixed)

\* RetryPrompt.assemble of a RetryPrompt whose prev is a prompt for function f
assembleRetry(f, body, err) == <<"retryTemplate", completeTestOf(f, body, TRUE), err>>

(***************************************************************************)
(* Prompts.                                                                *)
(***************************************************************************)
defaultPromptOptions ==
    [includeSnippets |-> FALSE, includeDocComment |-> FALSE,
     includeFunctionBody |-> FALSE]

\* syntax.trimAndCombineDocComment: a doc comment without text renders empty
trimAndCombineDocComment(doc) == IF doc = "doc" THEN "// doc" ELSE ""

\* new Prompt(fun, snippets, options): provenance starts empty
Prompt(options) ==
    [retry        |-> FALSE,
     options      |-> options,
     functionBody |-> IF options.includeFunctionBody THEN fun.implementation ELSE "",
     docComment   |-> IF options.includeDocComment
                      THEN trimAndCombineDocComment(
                               IF fun.docComment = "undefined" THEN "" ELSE fun.docComment)
                      ELSE "",
     prev         |-> 0,
     body         |-> <<>>,
     err          |-> "",
     provenance   |-> <<>>]

\* new RetryPrompt(prev, body, err): super(prev.fun, prev.usageSnippets, prev.options)
RetryPrompt(prev, body, err) ==
    [Prompt(heap[prev].options) EXCEPT !.retry = TRUE, !.prev = prev,
                                       !.body = body, !.err = err]

assembleUsageSnippets(p) ==
    IF ~p.options.includeSnippets
    THEN <<>>
    ELSE [i \in 1..Len(snippets) |-> <<"// usage #", i, snippets[i]>>]

assemble_withProvenance(p) ==
    IF p.retry
    THEN <<"retryTemplate", completeTest(p.body, TRUE), p.err>>
    ELSE <<"template", p.docComment, p.functionBody, assembleUsageSnippets(p),
           p.provenance>>

\* Prompt.assemble and RetryPrompt.assemble: the fields the template is expanded with
assemble(p) ==
    IF p.retry
    THEN <<"retryTemplate", completeTest(p.body, TRUE), p.err>>   \* assembleRetry
    ELSE <<"template", p.docComment, p.functionBody, assembleUsageSnippets(p)>>

\* the template file assemble reads: options.templateFileName for a Prompt,
\* options.retryTemplateFileName for a RetryPrompt
templateFileName(p) ==
    IF p.retry THEN "retryTemplateFileName" ELSE "templateFileName"

functionHasDocComment == fun.docComment # "undefined"

withProvenance_overwrite(p, provenanceInfos) ==
    [p EXCEPT !.provenance = provenanceInfos]

withProvenance_unshift(p, provenanceInfos) ==
    [p EXCEPT !.provenance = provenanceInfos \o @]

\* this.provenance.push(...provenanceInfos); return this
withProvenance(p, provenanceInfos) ==
    [p EXCEPT !.provenance = @ \o provenanceInfos]

(***************************************************************************)
(* Test outcomes and the refiners.                                         *)
(***************************************************************************)
PASSED == [status |-> "PASSED", message |-> ""]

FAILED(message) == [status |-> "FAILED", message |-> message]

PENDING == [status |-> "PENDING", message |-> ""]

SnippetIncluder_reset(original, completion, outcome) ==
    IF ~heap[original].options.includeSnippets /\ Len(snippets) > 0
    THEN <<Prompt([defaultPromptOptions EXCEPT !.includeSnippets = TRUE])>>
    ELSE <<>>

SnippetIncluder(original, completion, outcome) ==
    IF ~heap[original].options.includeSnippets /\ Len(snippets) > 0
    THEN <<Prompt([heap[original].options EXCEPT !.includeSnippets = TRUE])>>
    ELSE <<>>

DocCommentIncluder_nonempty(original, completion, outcome) ==
    IF ~heap[original].options.includeDocComment
           /\ fun.docComment \notin {"undefined", ""}
    THEN <<Prompt([heap[original].options EXCEPT !.includeDocComment = TRUE])>>
    ELSE <<>>

DocCommentIncluder(original, completion, outcome) ==
    IF ~heap[original].options.includeDocComment /\ functionHasDocComment
    THEN <<Prompt([heap[original].options EXCEPT !.includeDocComment = TRUE])>>
    ELSE <<>>

RetryWithError_always(original, completion, outcome) ==
    IF outcome.status = "FAILED"
    THEN <<RetryPrompt(original, completion, outcome.message)>>
    ELSE <<>>

RetryWithError_notPassed(original, completion, outcome) ==
    IF ~heap[original].retry /\ outcome.status # "PASSED"
    THEN <<RetryPrompt(original, completion, outcome.message)>>
    ELSE <<>>

RetryWithError(original, completion, outcome) ==
    IF ~heap[original].retry /\ outcome.status = "FAILED"
    THEN <<RetryPrompt(original, completion, outcome.message)>>
    ELSE <<>>

FunctionBodyIncluder(original, completion, outcome) ==
    IF ~heap[original].options.includeFunctionBody /\ fun.implementation # ""
    THEN <<Prompt([heap[original].options EXCEPT !.includeFunctionBody = TRUE])>>
    ELSE <<>>

refiners_bodyFirst == <<"FunctionBodyIncluder", "DocCommentIncluder",
                        "RetryWithError", "SnippetIncluder">>

\* TestGenerator.refiners, in the order of the field's initialiser
refiners == <<"SnippetIncluder", "RetryWithError", "DocCommentIncluder",
              "FunctionBodyIncluder">>

refine(refiner, original, completion, outcome) ==
    CASE refiner = "SnippetIncluder"      -> SnippetIncluder(original, completion, outcome)
      [] refiner = "RetryWithError"       -> RetryWithError(original, completion, outcome)
      [] refiner = "DocCommentIncluder"   -> DocCommentIncluder(original, completion, outcome)
      [] refiner = "FunctionBodyIncluder" -> FunctionBodyIncluder(original, completion, outcome)

\* the prompts refinePrompts pushes, in order, each with its provenance record
RECURSIVE refined(_, _, _, _)
refined(k, original, completion, testInfo) ==
    IF k > Len(refiners)
    THEN <<>>
    ELSE LET provenance == [originalPrompt |-> original, testId |-> testInfo.id,
                            refiner |-> refiners[k]]
             out == refine(refiners[k], original, completion, testInfo.outcome)
         IN  [i \in 1..Len(out) |-> withProvenance(out[i], <<provenance>>)]
             \o refined(k + 1, original, completion, testInfo)

\* TestGenerator.refinePrompts: the heap and the worklist after it
refinePrompts(original, completion, testInfo, wl) ==
    LET new == refined(1, original, completion, testInfo)
    IN  [heap     |-> heap \o new,
         worklist |-> wl \o [i \in 1..Len(new) |-> Len(heap) + i]]

(***************************************************************************)
(* The collector (its interface, as the driver uses it) and                *)
(* validateCompletion.                                                     *)
(***************************************************************************)
TestIndex(tests, source) ==
    IF \E i \in 1..Len(tests) : tests[i].testSource = source
    THEN CHOOSE i \in 1..Len(tests) : tests[i].testSource = source
    ELSE 0

\* recordTestInfo: one record per source, `prompts` accumulating the callers
recordTestInfo(tests, source, p) ==
    LET i == TestIndex(tests, source)
    IN  IF i # 0
        THEN [tests EXCEPT ![i].prompts = Append(@, p)]
        ELSE Append(tests, [id |-> Len(tests), testSource |-> source,
                            prompts |-> <<p>>, outcome |-> PENDING])

recordTestResult(tests, i, outcome) == [tests EXCEPT ![i].outcome = outcome]

\* the calls of recordTestResult, in order: a validateCompletion that returns
\* the memoised TestInfo makes none
recorded(results, v, temperature) ==
    IF v.known THEN results
    ELSE Append(results, [id |-> v.testInfo.id, temperature |-> temperature,
                          outcome |-> v.testInfo.outcome])

recordPromptInfo(prompts, p, temperature, completions) ==
    Append(prompts, [prompt |-> p, temperature |-> temperature,
                     completions |-> completions])

validateCompletion_noempty(p, completion, verdict) ==
    LET validate(testSource) ==
            LET key     == IF testSource = NoSource THEN completion ELSE testSource
                tests1  == recordTestInfo(collector.tests, key, p)
                i       == TestIndex(tests1, key)
                known   == Len(tests1[i].prompts) > 1
                asked   == ~known /\ testSource # NoSource
                outcome == IF testSource # NoSource THEN verdict
                           ELSE FAILED("Invalid syntax")
                tests2  == IF known THEN tests1 ELSE recordTestResult(tests1, i, outcome)
            IN  [tests |-> tests2, testInfo |-> tests2[i], source |-> key,
                 known |-> known, asked |-> asked]
    IN  CHOOSE v \in {validate(testSource) : testSource \in {completeTest(completion, TRUE)}} :
            TRUE

validateCompletion_validated(p, completion, verdict) ==
    LET validate(testSource) ==
            LET key     == IF testSource = NoSource THEN completion ELSE testSource
                tests1  == recordTestInfo(collector.tests, key, p)
                i       == TestIndex(tests1, key)
                known   == Len(tests1[i].prompts) > 1
                asked   == ~known /\ completion # <<>>
                outcome == IF completion = <<>> THEN FAILED("Empty test")
                           ELSE verdict
                tests2  == IF known THEN tests1 ELSE recordTestResult(tests1, i, outcome)
            IN  [tests |-> tests2, testInfo |-> tests2[i], source |-> key,
                 known |-> known, asked |-> asked]
    IN  CHOOSE v \in {validate(testSource) : testSource \in {completeTest(completion, TRUE)}} :
            TRUE

validateCompletion_nomemo(p, completion, verdict) ==
    LET validate(testSource) ==
            LET key     == IF testSource = NoSource THEN completion ELSE testSource
                tests1  == recordTestInfo(collector.tests, key, p)
                i       == TestIndex(tests1, key)
                asked   == completion # <<>> /\ testSource # NoSource
                outcome == IF completion = <<>> THEN FAILED("Empty test")
                           ELSE IF testSource # NoSource THEN verdict
                           ELSE FAILED("Invalid syntax")
                tests2  == recordTestResult(tests1, i, outcome)
            IN  [tests |-> tests2, testInfo |-> tests2[i], source |-> key,
                 known |-> FALSE, asked |-> asked]
    IN  CHOOSE v \in {validate(testSource) : testSource \in {completeTest(completion, TRUE)}} :
            TRUE

\* TestGenerator.validateCompletion; `verdict` is what validator.validateTest
\* answers if it is asked
validateCompletion(p, completion, verdict) ==
    LET validate(testSource) ==
            LET key     == IF testSource = NoSource THEN completion ELSE testSource
                tests1  == recordTestInfo(collector.tests, key, p)
                i       == TestIndex(tests1, key)
                known   == Len(tests1[i].prompts) > 1
                asked   == ~known /\ completion # <<>> /\ testSource # NoSource
                outcome == IF completion = <<>> THEN FAILED("Empty test")
                           ELSE IF testSource # NoSource THEN verdict
                           ELSE FAILED("Invalid syntax")
                tests2  == IF known THEN tests1 ELSE recordTestResult(tests1, i, outcome)
            IN  [tests |-> tests2, testInfo |-> tests2[i], source |-> key,
                 known |-> known, asked |-> asked]
    IN  CHOOSE v \in {validate(testSource) : testSource \in {completeTest(completion, TRUE)}} :
            TRUE

(***************************************************************************)
(* The environment: what the model may answer and the validator may say.   *)
(***************************************************************************)
Bodies == {<<"assertA">>, <<"sp", "assertA">>, <<>>, <<"unbalanced">>}

\* a test, white space only, the empty string, and a test whose brackets cannot
\* be closed
BodiesWithBlank == {<<"assertA">>, <<"sp">>, <<>>, <<"unbalanced">>}

Verdicts == {PASSED, FAILED("expected 2 to equal 3"), PENDING}

\* the test sets extracted from the raw completions of one answer: every raw
\* completion gives at least one candidate, a Set holds no candidate twice
Answers(n) ==
    {a \in SeqsUpTo({t \in SeqsUpTo(vocabulary, 1, MaxTests) : NoDup(t)}, 0, MaxRaw) :
        Len(Flatten(a)) <= n}

(***************************************************************************)
(* generateAndValidateTests, one action per step of its loops.             *)
(***************************************************************************)
TemplateFiles == {"templateFileName", "retryTemplateFileName"}

\* one call of generateAndValidateTests: it is the one that runs (`self`), no
\* other call is suspended, and `owner` names the call that created each
\* prompt that existed when the running call took over
OneInvocation == [self |-> 1, suspended |-> <<>>, owner |-> <<>>]

InitEnv(n, bodies, readable) ==
    /\ fun \in [docComment : {"undefined", "", "doc"}, implementation : {"", "impl"}]
    /\ snippets \in {<<>>, <<"snippet">>}
    /\ tIdx = 1
    /\ pc = "start"
    /\ heap = <<>>
    /\ worklist = <<>>
    /\ generatedPrompts = <<>>
    /\ generatedPassingTests = FALSE
    /\ prompt = 0
    /\ rawCompletions = <<>>
    /\ rawIdx = 1
    /\ testIdx = 1
    /\ collector = [tests |-> <<>>, results |-> <<>>, prompts |-> <<>>]
    /\ budget = n
    /\ queryLog = <<>>
    /\ validateLog = <<>>
    /\ validated = {}
    /\ passedAt = {}
    /\ passingBefore = FALSE
    /\ lastCall = [kind |-> "none"]
    /\ files \in readable
    /\ vocabulary = bodies
    /\ arg = [fn |-> "generateAndValidateTests"]
    /\ ret = [state |-> "pending"]
    /\ invocations = OneInvocation

InitWith(n) == InitEnv(n, Bodies, {TemplateFiles})

Init == InitWith(MaxCandidates)

InitFair == InitWith(MaxCandidatesFair)

pop_shift(wl) == [prompt |-> Head(wl), worklist |-> Tail(wl)]

pop_peek(wl) == [prompt |-> wl[Len(wl)], worklist |-> wl]

\* Array.pop: the element taken and the array left
pop(wl) == [prompt |-> wl[Len(wl)], worklist |-> SubSeq(wl, 1, Len(wl) - 1)]

previousPrompt_none(assembledPrompt) == 0

\* generatedPrompts.get(assembledPrompt), 0 for undefined
previousPrompt(assembledPrompt) ==
    IF \E i \in 1..Len(generatedPrompts) : generatedPrompts[i].text = assembledPrompt
    THEN LET i == CHOOSE i \in 1..Len(generatedPrompts) :
                      generatedPrompts[i].text = assembledPrompt
         IN  generatedPrompts[i].prompt
    ELSE 0

nextPosition_nobreak(passing, tests) ==
    IF testIdx = Len(tests)
    THEN <<rawIdx + 1, 1>>
    ELSE <<rawIdx, testIdx + 1>>

\* where the loops over rawCompletions and tests stand after one candidate:
\* `if (generatedPassingTests) break;` leaves the inner loop
nextPosition(passing, tests) ==
    IF passing \/ testIdx = Len(tests)
    THEN <<rawIdx + 1, 1>>
    ELSE <<rawIdx, testIdx + 1>>

afterAwait_fatal(answer) == IF answer = <<>> THEN "done" ELSE "for"

\* where the driver stands once model.completions has answered
afterAwait(answer) == "for"

StartRun_keepMap ==
    /\ pc = "start"
    /\ generatedPassingTests' = FALSE
    /\ heap' = Append(heap, Prompt(defaultPromptOptions))
    /\ worklist' = <<Len(heap) + 1>>
    /\ prompt' = 0
    /\ pc' = "while"
    /\ UNCHANGED <<invocations, files, vocabulary, arg, ret, fun, snippets, tIdx,
                   generatedPrompts, rawCompletions, rawIdx, testIdx, collector,
                   budget, queryLog, validateLog, validated, passedAt,
                   passingBefore, lastCall>>

\* the body of the for loop over this.temperatures, up to the while loop
StartRun ==
    /\ pc = "start"
    /\ generatedPassingTests' = FALSE
    /\ generatedPrompts' = <<>>
    /\ heap' = Append(heap, Prompt(defaultPromptOptions))
    /\ worklist' = <<Len(heap) + 1>>
    /\ prompt' = 0
    /\ pc' = "while"
    /\ UNCHANGED <<invocations, files, vocabulary, arg, ret, fun, snippets, tIdx, rawCompletions, rawIdx, testIdx, collector,
                   budget, queryLog, validateLog, validated, passedAt, passingBefore, lastCall>>

\* a popped prompt whose text was generated before: record provenance, continue
SkipDuplicate ==
    /\ pc = "while"
    /\ worklist # <<>>
    /\ \E p \in {pop(worklist).prompt} :
       \E assembledPrompt \in {assemble(heap[p])} :
       \E previous \in {previousPrompt(assembledPrompt)} :
           /\ templateFileName(heap[p]) \in files
           /\ previous # 0
           /\ heap' = [heap EXCEPT
                          ![previous] = withProvenance(@, heap[p].provenance)]
           /\ prompt' = p
           /\ lastCall' = [kind |-> "skip", prompt |-> p, previous |-> previous]
    /\ worklist' = pop(worklist).worklist
    /\ pc' = "while"
    /\ UNCHANGED <<invocations, files, vocabulary, arg, ret, fun, snippets, tIdx, generatedPrompts, generatedPassingTests,
                   rawCompletions, rawIdx, testIdx, collector, budget, queryLog,
                   validateLog, validated, passedAt, passingBefore>>

\* a popped prompt with a new text: remember it and call model.completions
Query ==
    /\ pc = "while"
    /\ worklist # <<>>
    /\ \E p \in {pop(worklist).prompt} :
       \E assembledPrompt \in {assemble(heap[p])} :
           /\ templateFileName(heap[p]) \in files
           /\ previousPrompt(assembledPrompt) = 0
           /\ generatedPrompts' = Append(generatedPrompts,
                                         [text |-> assembledPrompt, prompt |-> p])
           /\ queryLog' = Append(queryLog, [temperature |-> tIdx,
                                            text |-> assembledPrompt, prompt |-> p])
           /\ prompt' = p
    /\ worklist' = pop(worklist).worklist
    /\ pc' = "await"
    /\ UNCHANGED <<invocations, files, vocabulary, arg, ret, fun, snippets, tIdx, heap, generatedPassingTests, rawCompletions,
                   rawIdx, testIdx, collector, budget, validateLog, validated,
                   passedAt, passingBefore, lastCall>>

\* the await returns: the model's answer, possibly empty
Completions ==
    /\ pc = "await"
    /\ \E answer \in Answers(budget) :
          /\ rawCompletions' = answer
          /\ budget' = budget - Len(Flatten(answer))
    /\ rawIdx' = 1
    /\ testIdx' = 1
    /\ validated' = {}
    /\ passedAt' = {}
    /\ passingBefore' = generatedPassingTests
    /\ pc' = afterAwait(rawCompletions')
    /\ UNCHANGED <<invocations, files, vocabulary, arg, ret, fun, snippets, tIdx, heap, worklist, generatedPrompts,
                   generatedPassingTests, prompt, collector, queryLog, validateLog,
                   lastCall>>

\* one iteration of the inner for loop: validate a candidate, refine, maybe break
ValidateCandidate ==
    /\ pc = "for"
    /\ rawIdx <= Len(rawCompletions)
    /\ \E verdict \in Verdicts :
       \E tests \in {rawCompletions[rawIdx]} :
       \E test \in {tests[testIdx]} :
       \E v \in {validateCompletion(prompt, test, verdict)} :
       \E passed \in {v.testInfo.outcome.status = "PASSED"} :
       \E passing \in {generatedPassingTests \/ passed} :
       \E r \in {refinePrompts(prompt, test, v.testInfo, worklist)} :
              /\ collector' = [collector EXCEPT
                                   !.tests = v.tests,
                                   !.results = recorded(@, v, tIdx)]
              /\ validateLog' = IF v.asked THEN Append(validateLog, v.source)
                                ELSE validateLog
              /\ generatedPassingTests' = passing
              /\ heap' = r.heap
              /\ worklist' = r.worklist
              /\ validated' = validated \cup {<<rawIdx, testIdx>>}
              /\ passedAt' = IF passed THEN passedAt \cup {<<rawIdx, testIdx>>}
                             ELSE passedAt
              /\ lastCall' = [kind |-> "validateCompletion", source |-> v.source,
                              known |-> v.known, asked |-> v.asked,
                              testInfo |-> v.testInfo,
                              pushed |-> Len(r.worklist) - Len(worklist)]
              /\ rawIdx' = nextPosition(passing, tests)[1]
              /\ testIdx' = nextPosition(passing, tests)[2]
    /\ pc' = "for"
    /\ UNCHANGED <<invocations, files, vocabulary, arg, ret, fun, snippets, tIdx, generatedPrompts, prompt, rawCompletions,
                   budget, queryLog, passingBefore>>

RecordPromptInfo_validated ==
    /\ pc = "for"
    /\ rawIdx > Len(rawCompletions)
    /\ collector' = [collector EXCEPT
                        !.prompts = recordPromptInfo(@, prompt, tIdx,
                                        {rawCompletions[q[1]][q[2]] : q \in validated})]
    /\ pc' = "while"
    /\ UNCHANGED <<invocations, files, vocabulary, arg, ret, fun, snippets, tIdx, heap,
                   worklist, generatedPrompts, generatedPassingTests, prompt,
                   rawCompletions, rawIdx, testIdx, budget, queryLog, validateLog,
                   validated, passedAt, passingBefore, lastCall>>

\* after the for loops: collector.recordPromptInfo(prompt, temperature, completions)
RecordPromptInfo ==
    /\ pc = "for"
    /\ rawIdx > Len(rawCompletions)
    /\ collector' = [collector EXCEPT
                        !.prompts = recordPromptInfo(@, prompt, tIdx, {})]
    /\ pc' = "while"
    /\ UNCHANGED <<invocations, files, vocabulary, arg, ret, fun, snippets, tIdx, heap, worklist, generatedPrompts,
                   generatedPassingTests, prompt, rawCompletions, rawIdx, testIdx,
                   budget, queryLog, validateLog, validated, passedAt, passingBefore, lastCall>>

EndRun_onPass ==
    /\ pc = "while"
    /\ worklist = <<>> \/ generatedPassingTests
    /\ IF tIdx < NumTemps
       THEN tIdx' = tIdx + 1 /\ pc' = "start"
       ELSE tIdx' = tIdx /\ pc' = "done"
    /\ UNCHANGED <<invocations, files, vocabulary, arg, ret, fun, snippets, heap, worklist, generatedPrompts,
                   generatedPassingTests, prompt, rawCompletions, rawIdx, testIdx,
                   collector, budget, queryLog, validateLog, validated, passedAt,
                   passingBefore, lastCall>>

\* the worklist is empty: on to the next temperature, or return
EndRun ==
    /\ pc = "while"
    /\ worklist = <<>>
    /\ IF tIdx < NumTemps
       THEN tIdx' = tIdx + 1 /\ pc' = "start"
       ELSE tIdx' = tIdx /\ pc' = "done"
    /\ UNCHANGED <<invocations, files, vocabulary, arg, ret, fun, snippets, heap, worklist, generatedPrompts,
                   generatedPassingTests, prompt, rawCompletions, rawIdx, testIdx,
                   collector, budget, queryLog, validateLog, validated, passedAt,
                   passingBefore, lastCall>>

AssembleThrows_swallowed ==
    /\ pc = "while"
    /\ worklist # <<>>
    /\ templateFileName(heap[pop(worklist).prompt]) \notin files
    /\ prompt' = pop(worklist).prompt
    /\ worklist' = pop(worklist).worklist
    /\ pc' = "while"
    /\ UNCHANGED <<invocations, files, vocabulary, arg, ret, fun, snippets, tIdx, heap,
                   generatedPrompts, generatedPassingTests, rawCompletions, rawIdx,
                   testIdx, collector, budget, queryLog, validateLog, validated,
                   passedAt, passingBefore, lastCall>>

\* prompt.assemble() throws: fs.readFileSync finds no template file; nothing
\* in generateAndValidateTests catches it, so the promise it returned rejects
AssembleThrows ==
    /\ pc = "while"
    /\ worklist # <<>>
    /\ templateFileName(heap[pop(worklist).prompt]) \notin files
    /\ prompt' = pop(worklist).prompt
    /\ worklist' = pop(worklist).worklist
    /\ pc' = "threw"
    /\ ret' = Throw("ENOENT: no such file or directory")
    /\ UNCHANGED <<invocations, files, vocabulary, arg, fun, snippets, tIdx, heap,
                   generatedPrompts, generatedPassingTests, rawCompletions, rawIdx,
                   testIdx, collector, budget, queryLog, validateLog, validated,
                   passedAt, passingBefore, lastCall>>

Next ==
    \/ StartRun
    \/ SkipDuplicate
    \/ Query
    \/ Completions
    \/ ValidateCandidate
    \/ RecordPromptInfo
    \/ EndRun

Spec == Init /\ [][Next]_vars

\* the same driver where template files may be missing and the model may
\* answer white space
MaxCandidatesEdge == 2

InitEdge == InitEnv(MaxCandidatesEdge, BodiesWithBlank, SUBSET TemplateFiles)

NextEdge ==
    \/ Next
    \/ AssembleThrows

EdgeSpec == InitEdge /\ [][NextEdge]_vars

\* the driver is one thread of control: it takes its next step whenever it has one
FairSpec == InitFair /\ [][Next]_vars /\ WF_vars(Next)

(***************************************************************************)
(* Several calls of generateAndValidateTests on one TestGenerator.  The    *)
(* calls share the generator's collector, model and validator and the      *)
(* heap; the variables of the function body belong to each call.  One call *)
(* runs at a time: another call starts or goes on only when the running    *)
(* one is suspended at its await or has returned.                          *)
(***************************************************************************)
MaxCandidatesShared == 1

\* the variables of the running call
locals ==
    [tIdx |-> tIdx, pc |-> pc, worklist |-> worklist,
     generatedPrompts |-> generatedPrompts,
     generatedPassingTests |-> generatedPassingTests, prompt |-> prompt,
     rawCompletions |-> rawCompletions, rawIdx |-> rawIdx, testIdx |-> testIdx,
     validated |-> validated, passedAt |-> passedAt,
     passingBefore |-> passingBefore]

\* the variables of a call that has just been made
called ==
    [tIdx |-> 1, pc |-> "start", worklist |-> <<>>, generatedPrompts |-> <<>>,
     generatedPassingTests |-> FALSE, prompt |-> 0, rawCompletions |-> <<>>,
     rawIdx |-> 1, testIdx |-> 1, validated |-> {}, passedAt |-> {},
     passingBefore |-> FALSE]

continuation_sharedMap(frame) == [frame EXCEPT !.generatedPrompts = generatedPrompts]

\* what a suspended call finds when it goes on: its own variables
continuation(frame) == frame

\* the prompts created since the running call took over are its own
owners == invocations.owner
              \o [k \in 1..(Len(heap) - Len(invocations.owner)) |-> invocations.self]

\* the running call may also give way while it stands inside validateCompletion
Run_whileValidating(next, frame) ==
    /\ pc \in {"await", "done", "validateTest"}
    /\ invocations' =
           [self |-> next,
            suspended |->
                [i \in 1..MaxOf({Len(invocations.suspended), invocations.self, next}) |->
                    IF i = invocations.self THEN locals
                    ELSE IF i = next THEN [pc |-> "running"]
                    ELSE invocations.suspended[i]],
            owner |-> owners]
    /\ tIdx' = frame.tIdx
    /\ pc' = frame.pc
    /\ worklist' = frame.worklist
    /\ generatedPrompts' = frame.generatedPrompts
    /\ generatedPassingTests' = frame.generatedPassingTests
    /\ prompt' = frame.prompt
    /\ rawCompletions' = frame.rawCompletions
    /\ rawIdx' = frame.rawIdx
    /\ testIdx' = frame.testIdx
    /\ validated' = frame.validated
    /\ passedAt' = frame.passedAt
    /\ passingBefore' = frame.passingBefore
    /\ UNCHANGED <<fun, snippets, heap, collector, budget, queryLog, validateLog,
                   lastCall, files, vocabulary, arg, ret>>

\* the running call makes room for call `next`, whose variables are `frame`
Run(next, frame) ==
    /\ pc \in {"await", "done"}
    /\ invocations' =
           [self |-> next,
            suspended |->
                [i \in 1..MaxOf({Len(invocations.suspended), invocations.self, next}) |->
                    IF i = invocations.self THEN locals
                    ELSE IF i = next THEN [pc |-> "running"]
                    ELSE invocations.suspended[i]],
            owner |-> owners]
    /\ tIdx' = frame.tIdx
    /\ pc' = frame.pc
    /\ worklist' = frame.worklist
    /\ generatedPrompts' = frame.generatedPrompts
    /\ generatedPassingTests' = frame.generatedPassingTests
    /\ prompt' = frame.prompt
    /\ rawCompletions' = frame.rawCompletions
    /\ rawIdx' = frame.rawIdx
    /\ testIdx' = frame.testIdx
    /\ validated' = frame.validated
    /\ passedAt' = frame.passedAt
    /\ passingBefore' = frame.passingBefore
    /\ UNCHANGED <<fun, snippets, heap, collector, budget, queryLog, validateLog,
                   lastCall, files, vocabulary, arg, ret>>

\* the caller calls generateAndValidateTests again while the running call waits
\* for the model or has returned
Invoke ==
    /\ Len(invocations.suspended) < NumInvocations
    /\ Run(MaxOf({Len(invocations.suspended), 1}) + 1, called)

\* a call that waits for the model goes on: its answer is the next to arrive
Resume ==
    \E next \in 1..Len(invocations.suspended) :
        /\ next # invocations.self
        /\ invocations.suspended[next].pc = "await"
        /\ Run(next, continuation(invocations.suspended[next]))

InitShared == InitEnv(MaxCandidatesShared, Bodies, {TemplateFiles})

NextShared ==
    \/ Next
    \/ Invoke
    \/ Resume

SharedSpec == InitShared /\ [][NextShared]_vars

(***************************************************************************)
(* validateCompletion in steps.  The calls of generateAndValidateTests     *)
(* share the collector, so what one call finds there depends on where the  *)
(* others stand.  validateCompletion is followed statement by statement:   *)
(* recordTestInfo, the test of prompts.length, then validateTest and       *)
(* recordTestResult; refinePrompts and the end of the loop body follow the *)
(* return at once.                                                         *)
(***************************************************************************)
MaxCandidatesStepped == 2

\* testSource ?? completion
sourceOrCompletion(completion) ==
    CHOOSE key \in {IF testSource = NoSource THEN completion ELSE testSource :
                        testSource \in {completeTest(completion, TRUE)}} : TRUE

\* the test was recorded before (prompts.length > 1): validateCompletion returns
\* the memoised TestInfo, and the loop body goes on with it
ReturnMemoised ==
    /\ ValidateCandidate
    /\ lastCall'.known

\* a test recorded for the first time: recordTestInfo has returned and the
\* call stands before validateTest
RecordTestInfo ==
    /\ pc = "for"
    /\ rawIdx <= Len(rawCompletions)
    /\ \E key \in {sourceOrCompletion(rawCompletions[rawIdx][testIdx])} :
          /\ TestIndex(collector.tests, key) = 0
          /\ collector' = [collector EXCEPT !.tests = recordTestInfo(@, key, prompt)]
    /\ pc' = "validateTest"
    /\ UNCHANGED <<invocations, files, vocabulary, arg, ret, fun, snippets, tIdx,
                   heap, worklist, generatedPrompts, generatedPassingTests, prompt,
                   rawCompletions, rawIdx, testIdx, budget, queryLog, validateLog,
                   validated, passedAt, passingBefore, lastCall>>

\* the outcome is determined and recorded, validateCompletion returns, and the
\* loop body goes on: refinePrompts, maybe break
RecordTestResult ==
    /\ pc = "validateTest"
    /\ \E verdict \in Verdicts :
       \E tests \in {rawCompletions[rawIdx]} :
       \E test \in {tests[testIdx]} :
       \E testSource \in {completeTest(test, TRUE)} :
       \E key \in {sourceOrCompletion(test)} :
       \E i \in {TestIndex(collector.tests, key)} :
       \E outcome \in {IF test = <<>> THEN FAILED("Empty test")
                       ELSE IF testSource # NoSource THEN verdict
                       ELSE FAILED("Invalid syntax")} :
       \E asked \in {test # <<>> /\ testSource # NoSource} :
       \E tests2 \in {recordTestResult(collector.tests, i, outcome)} :
       \E v \in {[tests |-> tests2, testInfo |-> tests2[i], source |-> key,
                  known |-> FALSE, asked |-> asked]} :
       \E passed \in {v.testInfo.outcome.status = "PASSED"} :
       \E passing \in {generatedPassingTests \/ passed} :
       \E r \in {refinePrompts(prompt, test, v.testInfo, worklist)} :
              /\ collector' = [collector EXCEPT
                                   !.tests = v.tests,
                                   !.results = recorded(@, v, tIdx)]
              /\ validateLog' = IF v.asked THEN Append(validateLog, v.source)
                                ELSE validateLog
              /\ generatedPassingTests' = passing
              /\ heap' = r.heap
              /\ worklist' = r.worklist
              /\ validated' = validated \cup {<<rawIdx, testIdx>>}
              /\ passedAt' = IF passed THEN passedAt \cup {<<rawIdx, testIdx>>}
                             ELSE passedAt
              /\ lastCall' = [kind |-> "validateCompletion", source |-> v.source,
                              known |-> v.known, asked |-> v.asked,
                              testInfo |-> v.testInfo,
                              pushed |-> Len(r.worklist) - Len(worklist)]
              /\ rawIdx' = nextPosition(passing, tests)[1]
              /\ testIdx' = nextPosition(passing, tests)[2]
    /\ pc' = "for"
    /\ UNCHANGED <<invocations, files, vocabulary, arg, ret, fun, snippets, tIdx,
                   generatedPrompts, prompt, rawCompletions, budget, queryLog,
                   passingBefore>>

\* two candidates, so that a second call can be given a test the first has
\* been given; a function without usage snippets
InitStepped ==
    /\ InitEnv(MaxCandidatesStepped, {<<"assertA">>, <<>>}, {TemplateFiles})
    /\ snippets = <<>>

NextStepped ==
    \/ StartRun
    \/ SkipDuplicate
    \/ Query
    \/ Completions
    \/ ReturnMemoised
    \/ RecordTestInfo
    \/ RecordTestResult
    \/ RecordPromptInfo
    \/ EndRun
    \/ Invoke
    \/ Resume

SteppedSpec == InitStepped /\ [][NextStepped]_vars

(***************************************************************************)
(* Functions called on their own.  `arg` names the function and holds its  *)
(* arguments, `ret` holds what the call returned or threw.                 *)
(***************************************************************************)
driverVars == <<fun, snippets, tIdx, pc, heap, worklist, generatedPrompts,
                generatedPassingTests, prompt, rawCompletions, rawIdx, testIdx,
                collector, budget, queryLog, validateLog, validated, passedAt,
                passingBefore, lastCall, files, vocabulary, invocations>>

\* the driver is not running
NoRun ==
    /\ fun = [docComment |-> "undefined", implementation |-> ""]
    /\ snippets = <<>>
    /\ tIdx = 1
    /\ pc = "done"
    /\ heap = <<>>
    /\ worklist = <<>>
    /\ generatedPrompts = <<>>
    /\ generatedPassingTests = FALSE
    /\ prompt = 0
    /\ rawCompletions = <<>>
    /\ rawIdx = 1
    /\ testIdx = 1
    /\ collector = [tests |-> <<>>, results |-> <<>>, prompts |-> <<>>]
    /\ budget = 0
    /\ queryLog = <<>>
    /\ validateLog = <<>>
    /\ validated = {}
    /\ passedAt = {}
    /\ passingBefore = FALSE
    /\ lastCall = [kind |-> "none"]
    /\ files = TemplateFiles
    /\ vocabulary = {}
    /\ invocations = OneInvocation

(***************************************************************************)
(* ChatModel.  A response of the endpoint is what axios.post gives:        *)
(* rejected (no answer, or a status outside 2xx), or a status and data.    *)
(***************************************************************************)
MaxChoices == 2

Choices == [hasMessage : BOOLEAN, content : {"raw1", "raw2"}]

Responses ==
    [rejected : BOOLEAN, status : {"200", "204"},
     data : [present : BOOLEAN, error : {"", "quota exceeded"},
             hasChoices : BOOLEAN, choices : SeqsUpTo(Choices, 0, MaxChoices)]]

AuthHeaders == {"{\"Authorization\": \"Bearer k\"}", "Bearer k"}

\* ChatModel.query
query(authHeaders, res) ==
    IF authHeaders = "Bearer k"
    THEN Throw("SyntaxError: Unexpected token")            \* JSON.parse
    ELSE IF res.rejected
    THEN Throw("AxiosError")                               \* await axios.post
    ELSE IF res.status # "200"
    THEN Throw("Request failed with status")
    ELSE IF ~res.data.present
    THEN Throw("Response data is empty")
    ELSE IF res.data.error # ""
    THEN Throw(res.data.error)
    ELSE IF ~res.data.hasChoices
    THEN Throw("TypeError: json.choices is not iterable")
    ELSE IF \E i \in 1..Len(res.data.choices) : ~res.data.choices[i].hasMessage
    THEN Throw("TypeError: Cannot read properties of undefined")
    ELSE Return({res.data.choices[i].content : i \in 1..Len(res.data.choices)})

completions_nocatch(authHeaders, res) == query(authHeaders, res)

\* ChatModel.completions: try { copy the result of query } catch { warn, empty set }
completions(authHeaders, res) ==
    LET result == query(authHeaders, res)
    IN  IF result.state = "threw" THEN Return({}) ELSE Return(result.value)

CallCompletions ==
    /\ arg.fn = "completions"
    /\ ret.state = "pending"
    /\ ret' = completions(arg.authHeaders, arg.res)
    /\ UNCHANGED <<driverVars, arg>>

(***************************************************************************)
(* extractTestFromRawCompletion.  A raw completion is a sequence of        *)
(* tokens: "fence" is the mark of a fenced block, "nl" a line break,      *)
(* "it(" and "describe(" are the literal markers, anything else is other   *)
(* text.  Indices are those of JavaScript: they start at 0 and -1 stands   *)
(* for "not found".                                                        *)
(***************************************************************************)
\* String.indexOf(searchString, position)
indexOf(str, searchString, position) ==
    LET found == {i \in 0..(Len(str) - 1) : i >= position /\ str[i + 1] = searchString}
    IN  IF found = {} THEN -1 ELSE MinOf(found)

\* String.substring(indexStart, indexEnd): both indices are clamped to
\* 0..length and swapped when the first is the greater
substring(str, indexStart, indexEnd) ==
    LET clamp(i) == IF i < 0 THEN 0 ELSE IF i > Len(str) THEN Len(str) ELSE i
        lo == IF clamp(indexStart) <= clamp(indexEnd) THEN clamp(indexStart)
              ELSE clamp(indexEnd)
        hi == IF clamp(indexStart) <= clamp(indexEnd) THEN clamp(indexEnd)
              ELSE clamp(indexStart)
    IN  SubSeq(str, lo + 1, hi)

\* Set.add on a Set kept in insertion order
add(set, value) == IF value \in Range(set) THEN set ELSE Append(set, value)

\* the match of the regular expression (fence, rest of its line, line break,
\* group, line break, fence; no character of the group is followed by a fence)
\* that starts at the fence at index i: the line of the fence ends at the
\* first line break, the group runs up to the token before the next fence (a
\* fence may be its first token only), and the token before that fence has to
\* be a line break
matchAt(raw, i) ==
    LET j == indexOf(raw, "nl", i + 1)
        k == IF j = -1 THEN -1 ELSE indexOf(raw, "fence", j + 2)
    IN  IF raw[i + 1] = "fence" /\ j # -1 /\ k # -1 /\ raw[k] = "nl"
        THEN [found |-> TRUE, code |-> substring(raw, j + 1, k - 1), end |-> k + 1]
        ELSE [found |-> FALSE, code |-> <<>>, end |-> 0]

\* regExp.exec(rawCompletion), first call: the leftmost match
exec(raw) ==
    LET starts == {i \in 0..(Len(raw) - 1) : matchAt(raw, i).found}
    IN  IF starts = {} THEN [found |-> FALSE, code |-> <<>>, end |-> 0]
        ELSE matchAt(raw, MinOf(starts))

\* the while loop over the test cases of `code` and the last test added after it
RECURSIVE tests(_, _, _)
tests(code, testIndex, set) ==
    LET nextTestIndex == indexOf(code, "it(", testIndex + 1)
    IN  IF nextTestIndex # -1
        THEN tests(code, nextTestIndex, add(set, substring(code, testIndex, nextTestIndex)))
        ELSE add(set, substring(code, testIndex, Len(code)))

RECURSIVE dedup(_)
dedup(list) ==
    IF list = <<>> THEN <<>>
    ELSE add(dedup(SubSeq(list, 1, Len(list) - 1)), list[Len(list)])

extractTestFromRawCompletion_nosplit(rawCompletion) ==
    IF exec(rawCompletion).found THEN <<exec(rawCompletion).code>> ELSE <<rawCompletion>>

extractTestFromRawCompletion_lastBlock(rawCompletion) ==
    LET ends == {i \in 0..(Len(rawCompletion) - 1) : matchAt(rawCompletion, i).found}
    IN  IF ends = {} THEN <<rawCompletion>>
        ELSE <<matchAt(rawCompletion, MaxOf(ends)).code>>

extractTestFromRawCompletion(rawCompletion) ==
    LET match == exec(rawCompletion)
        code  == match.code
        indexOfSuite     == indexOf(code, "describe(", 0)
        indexOfFirstTest == indexOf(code, "it(", 0)
        set         == tests(code, indexOfFirstTest, <<>>)
        preSuite    == substring(code, 0, indexOfSuite)
        suiteHead   == substring(code, indexOfSuite, indexOfFirstTest)
    IN  IF ~match.found
        THEN <<rawCompletion>>
        ELSE IF Count(code, {"it("}) = 1       \* code.split("it(").length === 2
        THEN <<code>>
        ELSE dedup([i \in 1..Len(set) |-> preSuite \o suiteHead \o set[i]])

CallExtract ==
    /\ arg.fn = "extractTestFromRawCompletion"
    /\ ret.state = "pending"
    /\ ret' = Return(extractTestFromRawCompletion(arg.rawCompletion))
    /\ UNCHANGED <<driverVars, arg>>

\* prompt.completeTest(body, stubOutHeaders), called on its own; `closed` is
\* what it called closeBrackets with
CallCompleteTest ==
    /\ arg.fn = "completeTest"
    /\ ret.state = "pending"
    /\ ret' = [state |-> "returned",
               value |-> completeTest(arg.body, arg.stubOutHeaders),
               closed |-> codeBeforeClosing(arg.body, arg.stubOutHeaders)]
    /\ UNCHANGED <<driverVars, arg>>

\* completeTest(body, stubOutHeaders) of a prompt for any of the functions, and
\* assemble() of a RetryPrompt made from that prompt with that body
CallCompleteTestOf ==
    /\ arg.fn = "completeTest of"
    /\ ret.state = "pending"
    /\ ret' = [state |-> "returned",
               value |-> completeTestOf(arg.fun, arg.body, arg.stubOutHeaders),
               retry |-> assembleRetry(arg.fun, arg.body, arg.err)]
    /\ UNCHANGED <<driverVars, arg>>

(***************************************************************************)
(* Prompt.assemble as text.  A text is a sequence of tokens; a token is a   *)
(* record of its characters `t` and of the part of the prompt it renders    *)
(* `of`: a field of the template context, a paragraph of the template, or   *)
(* the layout (the line ends and blank lines of the template).  The code    *)
(* matches on characters only.                                              *)
(***************************************************************************)
Lit(of, text) == [i \in 1..Len(text) |-> [t |-> text[i], of |-> of]]

Plain(text) == [i \in 1..Len(text) |-> text[i].t]

Hole(name) == <<[t |-> name, of |-> "placeholder"]>>

\* templates/template.hb, the template of the tests of prompt assembly
template_hb ==
    Lit("task", <<"Your task is to write a test for the following function:">>)
        \o Lit("layout", <<"nl">>)
        \o Lit("signature", <<"fence", "nl">>)
        \o Hole("docComments") \o Lit("layout", <<"nl">>)
        \o Hole("signature") \o Lit("layout", <<"nl">>)
        \o Lit("signature", <<"fence">>) \o Lit("layout", <<"nl", "nl">>)
        \o Hole("functionBody") \o Lit("layout", <<"nl", "nl">>)
        \o Hole("snippets") \o Lit("layout", <<"nl", "nl">>)
        \o Lit("instructions",
               <<"Please", " proceed by modifying the following code fragment:">>)
        \o Lit("layout", <<"nl">>)
        \o Lit("code", <<"fence", "nl">>)
        \o Hole("code") \o Lit("layout", <<"nl">>)
        \o Lit("code", <<"fence">>)
        \o Lit("layout", <<" ", "nl">>)
        \o Lit("task", <<"so that it becomes a test suite ...", "nl", "nl",
                         "Provide your answer as a fenced code block.">>)

\* templates/template-singletest.hb: no placeholder for the doc comment
template_singletest_hb ==
    Lit("task", <<"Your task is to write a test for the following function">>)
        \o Lit("layout", <<"nl">>)
        \o Lit("signature", <<"fence", "nl">>)
        \o Hole("signature") \o Lit("layout", <<"nl">>)
        \o Lit("signature", <<"fence">>) \o Lit("layout", <<"nl", "nl">>)
        \o Hole("functionBody") \o Lit("layout", <<"nl", "nl">>)
        \o Hole("snippets") \o Lit("layout", <<"nl", "nl">>)
        \o Lit("instructions",
               <<"Please", " proceed by modifying the following code fragment">>)
        \o Lit("layout", <<"nl">>)
        \o Lit("code", <<"fence", "nl">>)
        \o Hole("code") \o Lit("layout", <<"nl">>)
        \o Lit("code", <<"fence">>)
        \o Lit("layout", <<" ", "nl">>)
        \o Lit("task", <<"so that it becomes a single, self-contained unit test ...",
                         "nl", "nl", "Provide your answer as a fenced code block ",
                         "nl", "fence", "nl", "<unit test>", "nl", "fence">>)

readFileSync(fileName) ==
    IF fileName = "./templates/template.hb"
    THEN template_hb
    ELSE template_singletest_hb

\* handlebars.compile(template)(context) for a template of triple-brace
\* placeholders: each is replaced by the context's text of that name
compiledTemplate(template, context) ==
    Flatten([i \in 1..Len(template) |->
                IF template[i].of = "placeholder"
                THEN context[template[i].t]
                ELSE <<template[i]>>])

\* String.includes and the arguments of String.replace(pattern, replacement)
\* for a pattern of several tokens: where the first occurrence starts
includes(text, pattern) ==
    \E i \in 1..(Len(text) - Len(pattern) + 1) :
        \A k \in 1..Len(pattern) : text[i + k - 1].t = pattern[k]

search(text, pattern) ==
    MinOf({i \in 1..(Len(text) - Len(pattern) + 1) :
              \A k \in 1..Len(pattern) : text[i + k - 1].t = pattern[k]})

remove(text, i) == SubSeq(text, 1, i - 1) \o SubSeq(text, i + 1, Len(text))

\* while (text.includes(pattern)) text = text.replace(pattern, shorter), for a
\* replacement that is the pattern without the line end at offset `drop`
RECURSIVE avoid(_, _, _)
avoid(text, pattern, drop) ==
    IF includes(text, pattern)
    THEN avoid(remove(text, search(text, pattern) + drop - 1), pattern, drop)
    ELSE text

\* if (text.includes(word)) text = text.replace(word, '\n' + word): a line end
\* before the first occurrence of the word, which starts its paragraph
paragraph(text, word) ==
    IF includes(text, <<word>>)
    THEN LET i == search(text, <<word>>)
         IN  SubSeq(text, 1, i - 1)
                 \o <<[t |-> "nl", of |-> text[i].of]>>
                 \o SubSeq(text, i, Len(text))
    ELSE text

\* the passes of assemble over the expanded template, in their order
normalize(expandedTemplate) ==
    LET noBlankLines == avoid(expandedTemplate, <<"nl", "nl", "nl">>, 3)
        noBlankStart == avoid(noBlankLines, <<"fence", "nl", "nl">>, 3)
        noBlankEnd   == avoid(noBlankStart, <<"nl", "nl", "fence">>, 2)
    IN  paragraph(paragraph(paragraph(noBlankEnd, "Please"),
                            "This function"), "You may use")

\* String.split("\n") and join("") of one snippet
lines_join(snippet) == SelectSeq(snippet, LAMBDA tok : tok # "nl")

\* Prompt.assembleUsageSnippets over the prompt's usageSnippets
assembleSnippets(includeSnippets, usageSnippets) ==
    IF ~includeSnippets
    THEN <<>>
    ELSE Flatten([index \in 1..Len(usageSnippets) |->
                     <<"// usage #", "nl">>
                         \o lines_join(usageSnippets[index]) \o <<"nl">>])

\* the fields the constructor fills from the function and the options, and the
\* text assemble renders from them
assembleText(call) ==
    LET functionBody == IF call.options.includeFunctionBody
                        THEN call.implementation ELSE <<>>
        docComments  == IF call.options.includeDocComment
                        THEN call.docComment ELSE <<>>
        snippetText  == assembleSnippets(call.options.includeSnippets,
                                         call.usageSnippets)
        context ==
            [signature    |-> Lit("signature", trim(call.signature)),
             docComments  |-> Lit("docComments", docComments),
             functionBody |->
                 IF functionBody # <<>>
                 THEN Lit("functionBody",
                          <<"This function", " is defined as follows:", "nl",
                            "fence", "nl">>
                              \o trim(functionBody) \o <<"nl", "fence">>)
                 ELSE <<>>,
             snippets     |->
                 IF snippetText # <<>>
                 THEN Lit("snippets",
                          <<"You may use",
                            " the following examples to guide your implementation:",
                            "nl", "fence", "nl">>
                              \o snippetText \o <<"nl", "fence">>)
                 ELSE <<>>,
             \* the test header, the last of the headers, ends in a line end
             code         |-> Lit("code", imports \o suiteHeader \o testHeader
                                              \o <<"nl">>)]
    IN  normalize(compiledTemplate(readFileSync(call.templateFileName), context))

\* prompt.assemble(), called on its own
CallAssemble ==
    /\ arg.fn = "assemble"
    /\ ret.state = "pending"
    /\ ret' = Return(assembleText(arg))
    /\ UNCHANGED <<driverVars, arg>>

(***************************************************************************)
(* The functions above, each called once on an argument of a bounded set.  *)
(***************************************************************************)
MaxRawLen == 6
MaxCodeLen == 5

\* a fenced block with the given code
Block(code) == <<"fence", "nl">> \o code \o <<"nl", "fence">>

\* what a raw completion holds before and after a block: nothing, text, a
\* fence that closes no block, another block
Surroundings ==
    {<<>>, <<"a", "nl">>, <<"nl", "b">>, <<"fence", "a">>,
     Block(<<"b">>), Block(<<"it(", "b">>)}

\* raw completions: every short sequence of tokens, and a block of every short
\* code in every surrounding
RawCompletions ==
    SeqsUpTo({"fence", "nl", "it(", "a"}, 0, MaxRawLen)
        \cup {pre \o Block(code) \o post :
                 pre \in Surroundings, post \in Surroundings,
                 code \in SeqsUpTo({"describe(", "it(", "a"}, 0, MaxCodeLen)}

\* the inputs of assemble: the template, the options, and texts of the
\* function's signature, doc comment, implementation and usage snippets, with
\* and without the words that assemble starts a paragraph at
TemplateNames == {"./templates/template.hb", "./templates/template-singletest.hb"}

PromptOptions ==
    [includeSnippets : BOOLEAN, includeDocComment : BOOLEAN,
     includeFunctionBody : BOOLEAN]

Signatures == {<<"fn(args)">>, <<"fn(args)", "nl">>}

DocComments ==
    {<<>>,
     <<"// doc", "nl">>,
     <<"// doc", "nl", "nl", "nl", "// more", "nl">>,
     <<"// ", "This function", " adds", "nl">>,
     <<"// ", "Please", " note", "nl">>}

Implementations ==
    {<<>>,
     <<"function fn(args) {", "nl", "}">>,
     <<"function fn(args) {", "nl", "// ", "Please", " fix", "nl", "}">>,
     <<"function fn(args) {", "nl", "// ", "You may use", " it", "nl", "}">>}

UsageSnippets ==
    {<<>>,
     << <<"fn(1)">> >>,
     << <<"fn(1)", "nl", "fn(2)">>, <<"fn(3)">> >>,
     << <<"// ", "Please", " call", "nl", "fn(1)">> >>}

MaxBodyLen == 4

\* test bodies: every short sequence of tokens
TestBodies ==
    SeqsUpTo({"require", "describe(", "it(", "nl", "sp", "assertA", "})"}, 0, MaxBodyLen)

MaxShortLen == 3

\* test bodies for prompts of several functions
ShortBodies ==
    SeqsUpTo({"require", "describe(", "nl", "sp", "assertA", "})"}, 0, MaxShortLen)

Calls ==
    [fn : {"completions"}, authHeaders : AuthHeaders, res : Responses]
        \cup [fn : {"completeTest"}, body : TestBodies, stubOutHeaders : BOOLEAN]
        \cup [fn : {"extractTestFromRawCompletion"}, rawCompletion : RawCompletions]
        \cup [fn : {"completeTest of"}, fun : Functions, options : PromptOptions,
             body : ShortBodies, stubOutHeaders : BOOLEAN,
             err : {"expected 2 to equal 3"}]
        \cup [fn : {"assemble"}, templateFileName : TemplateNames,
            options : PromptOptions, signature : Signatures,
            docComment : DocComments, implementation : Implementations,
            usageSnippets : UsageSnippets]

PureInit ==
    /\ NoRun
    /\ arg \in Calls
    /\ ret = [state |-> "pending"]

PureNext ==
    \/ CallCompletions
    \/ CallExtract
    \/ CallCompleteTest
    \/ CallCompleteTestOf
    \/ CallAssemble

PureSpec == PureInit /\ [][PureNext]_vars

(***************************************************************************)
(* Properties.                                                             *)
(***************************************************************************)
Prompts == 1..Len(heap)

Top == worklist[Len(worklist)]

\* the inner and outer for loops have run to their end
LoopDone == pc = "for" /\ rawIdx > Len(rawCompletions)

AllPositions ==
    UNION {{<<r, i>> : i \in 1..Len(rawCompletions[r])} : r \in 1..Len(rawCompletions)}

\* the inclusion refiners that fire on prompt p
Includers(p) ==
    {f \in {"includeSnippets", "includeDocComment", "includeFunctionBody"} :
        /\ ~heap[p].options[f]
        /\ CASE f = "includeSnippets"     -> Len(snippets) > 0
             [] f = "includeDocComment"   -> fun.docComment # "undefined"
             [] f = "includeFunctionBody" -> fun.implementation # ""}

FlagsSet(p) ==
    {f \in {"includeSnippets", "includeDocComment", "includeFunctionBody"} :
        heap[p].options[f]}

\* the base prompt of a run: the first prompt the run queries
IsBase(p) ==
    \/ heap[p].provenance = <<>>
    \/ \E i \in 1..Len(queryLog) :
          /\ queryLog[i].prompt = p
          /\ \A j \in 1..(i - 1) : queryLog[j].temperature # queryLog[i].temperature

\* the prompt a refiner made p from: refinePrompts attaches that record first
RefinedFrom(p) == heap[p].provenance[1].originalPrompt

Parents(p) == {heap[p].provenance[k].originalPrompt : k \in 1..Len(heap[p].provenance)}

\* the most RetryPrompts on a chain of provenance links that starts at p and
\* visits no prompt twice
RECURSIVE MaxRetries(_, _)
MaxRetries(p, visited) ==
    LET up == {MaxRetries(q, visited \cup {p}) : q \in Parents(p) \ (visited \cup {p})}
    IN  (IF heap[p].retry THEN 1 ELSE 0) + MaxOf(up \cup {0})

\* the RetryPrompts on the chain that leads from p back to the base prompt
\* through the prompt each one was refined from
RECURSIVE RetriesOnChain(_)
RetriesOnChain(p) ==
    (IF heap[p].retry THEN 1 ELSE 0)
        + (IF IsBase(p) THEN 0 ELSE RetriesOnChain(RefinedFrom(p)))

\* the source validateCompletion records a candidate under
SourceOf(completion) ==
    LET testSource == completeTest(completion, TRUE)
    IN  IF testSource = NoSource THEN completion ELSE testSource

\* C1: within one (function, temperature) run, model.completions is called at
\* most once for each distinct assembled prompt text
C1_OneQueryPerText ==
    \A i, j \in 1..Len(queryLog) :
        (i # j /\ queryLog[i].temperature = queryLog[j].temperature)
            => queryLog[i].text # queryLog[j].text

\* a prompt whose text had been queried was popped and skipped
C1_Witness ==
    /\ lastCall.kind = "skip"
    /\ lastCall.prompt # lastCall.previous
    /\ Len(queryLog) >= 2

C3_AllValidatedAfterPass ==
    (LoopDone /\ passedAt # {}) => validated = AllPositions

\* how many candidates of raw completion r are validated
Limit(r) ==
    IF passingBefore \/ \E q \in passedAt : q[1] < r
    THEN 1
    ELSE IF \E q \in passedAt : q[1] = r
         THEN (CHOOSE q \in passedAt : q[1] = r)[2]
         ELSE Len(rawCompletions[r])

\* C3 as amended: the candidates of a raw completion are validated in order up
\* to the first PASSED one, the rest of that raw completion is skipped, and of
\* every raw completion handled after a PASSED only the first candidate is
\* validated
C3_ValidatedUntilPass ==
    LoopDone =>
        \A r \in 1..Len(rawCompletions) :
            {q[2] : q \in {v \in validated : v[1] = r}} = 1..Limit(r)

\* a candidate passed, the next one of its raw completion was skipped, the first
\* one of the next raw completion was validated
C3_Witness ==
    /\ LoopDone
    /\ <<1, 1>> \in passedAt
    /\ <<1, 2>> \in AllPositions \ validated
    /\ <<2, 1>> \in validated

C5_OneRetryPerLineage == \A p \in Prompts : MaxRetries(p, {}) <= 1

\* C5 as amended: a RetryPrompt is never derived directly from a RetryPrompt;
\* the chain from a prompt back to the base prompt through the prompt each one
\* was refined from holds at most one more RetryPrompt than the prompt has
\* inclusion flags set
C5_RetryNotRetried ==
    \A p \in Prompts :
        /\ \A k \in 1..Len(heap[p].provenance) :
              heap[p].provenance[k].refiner = "RetryWithError"
                  <=> heap[p].retry
        /\ heap[p].retry =>
              /\ ~heap[heap[p].prev].retry
              /\ \A q \in Parents(p) : ~heap[q].retry
        /\ RetriesOnChain(p) <= 1 + Cardinality(FlagsSet(p))

\* a RetryPrompt made from a prompt that an inclusion refiner made from a
\* RetryPrompt: two retry hops on the chain of first provenance records
C5_Witness ==
    \E p \in Prompts :
        /\ heap[p].retry
        /\ ~IsBase(heap[p].prev)
        /\ heap[RefinedFrom(heap[p].prev)].retry
        /\ RetriesOnChain(p) = 2

\* C6: validateTest is called at most once per completed source; for a source
\* recorded before, the validator is not called, no result is recorded and the
\* recorded outcome is returned and used for refinement
C6_ValidatedOnce ==
    [][/\ NoDup(validateLog')
       /\ (pc = "for" /\ rawIdx <= Len(rawCompletions))
             => LET key == SourceOf(rawCompletions[rawIdx][testIdx])
                    old == TestIndex(collector.tests, key)
                    new == {p \in (Len(heap) + 1)..Len(heap') : heap'[p].retry}
                IN  old # 0 =>
                      /\ validateLog' = validateLog
                      /\ Len(collector'.tests) = Len(collector.tests)
                      /\ collector'.tests[old].outcome = collector.tests[old].outcome
                      /\ lastCall'.testInfo.id = collector.tests[old].id
                      /\ lastCall'.testInfo.outcome = collector.tests[old].outcome
                      /\ collector'.tests[old].prompts
                            = Append(collector.tests[old].prompts, prompt)
                      /\ (new # {}) <=> (collector.tests[old].outcome.status = "FAILED"
                                          /\ ~heap[prompt].retry)
                      /\ \A p \in new :
                            heap'[p].err = collector.tests[old].outcome.message]_vars

\* a candidate validated in an earlier temperature came back and was not validated
C6_Witness ==
    /\ lastCall.kind = "validateCompletion"
    /\ lastCall.known
    /\ ~lastCall.asked
    /\ tIdx = 2
    /\ generatedPrompts # <<>>
    /\ lastCall.testInfo.prompts[1] < generatedPrompts[1].prompt
    /\ lastCall.testInfo.outcome.status = "FAILED"

\* C7: the worklist is a stack: the prompt popped is the one pushed last among
\* those waiting (prompts are pushed in the order they are created, so that is
\* the one with the greatest index)
C7_WorklistIsStack ==
    [][(pc = "while" /\ worklist # <<>>)
          => /\ prompt' = MaxOf(Range(worklist))
             /\ Range(worklist') = Range(worklist) \ {prompt'}
             /\ Len(worklist') = Len(worklist) - 1]_vars

\* a prompt derived from the prompt just processed was popped while a prompt
\* derived from an earlier one was waiting
C7_Witness ==
    /\ pc = "await"
    /\ heap[prompt].provenance # <<>>
    /\ \E w \in Range(worklist) :
          /\ w < prompt
          /\ heap[w].provenance[1].originalPrompt
                < heap[prompt].provenance[1].originalPrompt

\* C8: a popped prompt whose text is in the dedup map hands its provenance
\* records to the stored prompt, which stays the stored one, and causes no
\* query, no validation and no refinement
C8_DuplicateAbsorbed ==
    [][(pc = "while" /\ worklist # <<>> /\ previousPrompt(assemble(heap[Top])) # 0)
          => LET previous == previousPrompt(assemble(heap[Top]))
             IN  /\ heap' = [heap EXCEPT ![previous].provenance =
                                heap[previous].provenance \o heap[Top].provenance]
                 /\ generatedPrompts' = generatedPrompts
                 /\ queryLog' = queryLog
                 /\ validateLog' = validateLog
                 /\ collector' = collector
                 /\ worklist' = SubSeq(worklist, 1, Len(worklist) - 1)
                 /\ pc' = "while"]_vars

\* two prompts with one text: one was queried and carries the provenance of both
C8_Witness ==
    /\ lastCall.kind = "skip"
    /\ lastCall.prompt # lastCall.previous
    /\ heap[lastCall.prompt] # heap[lastCall.previous]
    /\ Len(heap[lastCall.previous].provenance) >= 2
    /\ Cardinality({q \in 1..Len(queryLog) :
                       queryLog[q].text = assemble(heap[lastCall.prompt])
                       /\ queryLog[q].temperature = tIdx}) = 1

C10_EmptyAnswer ==
    [][/\ (pc = "await" /\ rawCompletions' = <<>>)
             => (pc' = "for" /\ LoopDone'
                 /\ UNCHANGED <<heap, worklist, collector, validateLog, tIdx>>)
       /\ (pc = "for" /\ rawCompletions = <<>>)
             => (pc' = "while"
                 /\ collector'.tests = collector.tests
                 /\ Len(collector'.prompts) = Len(collector.prompts) + 1
                 /\ UNCHANGED <<heap, worklist, validateLog, tIdx>>)]_vars

\* an empty answer was recorded and there is a next worklist item
C10_Witness ==
    /\ pc = "while"
    /\ prompt # 0
    /\ rawCompletions = <<>>
    /\ collector.prompts # <<>>
    /\ collector.prompts[Len(collector.prompts)].prompt = prompt
    /\ worklist # <<>>

\* C11: ChatModel.completions never throws; whenever the underlying query
\* fails (malformed auth headers, request error, status other than 200, empty
\* response data, error field, malformed choices) it returns the empty set
C11_CompletionsNeverThrows ==
    (arg.fn = "completions" /\ ret.state # "pending") =>
        /\ ret.state = "returned"
        /\ query(arg.authHeaders, arg.res).state = "threw" => ret.value = {}
        /\ query(arg.authHeaders, arg.res).state = "returned"
              => ret.value = query(arg.authHeaders, arg.res).value

\* the endpoint answered with a status other than 200 and the call returned
\* the empty set
C11_Witness ==
    /\ arg.fn = "completions"
    /\ ret.state = "returned"
    /\ arg.authHeaders # "Bearer k"
    /\ ~arg.res.rejected
    /\ arg.res.status = "204"
    /\ arg.res.data.present
    /\ arg.res.data.choices # <<>>
    /\ ret.value = {}

\* C12 as stated: an empty candidate always comes back FAILED "Empty test" and
\* the validator is not invoked for it
C12_EmptyAlwaysFailed ==
    [][(pc = "for" /\ rawIdx <= Len(rawCompletions)
           /\ rawCompletions[rawIdx][testIdx] = <<>>)
          => /\ validateLog' = validateLog
             /\ lastCall'.testInfo.outcome = FAILED("Empty test")]_vars

\* C12 as amended: the validator is never invoked for an empty candidate; when
\* its completed source has no record yet, FAILED "Empty test" is recorded for
\* it; when the source was recorded before (by an empty candidate, or by a
\* candidate of white space only, which completes to the same source), nothing
\* is recorded and the outcome recorded then is returned
C12_EmptyNotValidated ==
    [][(pc = "for" /\ rawIdx <= Len(rawCompletions)
           /\ rawCompletions[rawIdx][testIdx] = <<>>)
          => LET key == SourceOf(<<>>)
                 old == TestIndex(collector.tests, key)
                 new == TestIndex(collector'.tests, key)
             IN  /\ validateLog' = validateLog
                 /\ key # <<>>
                 /\ lastCall'.source = key
                 /\ lastCall'.testInfo = collector'.tests[new]
                 /\ old = 0 => /\ Len(collector'.tests) = Len(collector.tests) + 1
                               /\ collector'.tests[new].outcome = FAILED("Empty test")
                 /\ old # 0 => /\ Len(collector'.tests) = Len(collector.tests)
                               /\ collector'.tests[new].outcome
                                      = collector.tests[old].outcome]_vars

\* an empty candidate recorded as FAILED "Empty test", the validator never asked
C12_Witness ==
    /\ lastCall.kind = "validateCompletion"
    /\ lastCall.source = SourceOf(<<>>)
    /\ ~lastCall.known
    /\ lastCall.testInfo.outcome = FAILED("Empty test")
    /\ SourceOf(<<>>) \notin Range(validateLog)

\* C13: a non-empty candidate that completeTest cannot complete is recorded
\* under its raw text as FAILED "Invalid syntax", the validator is not invoked,
\* and the run goes on: the refiners run on it as on any failed test (one
\* RetryPrompt unless the prompt is one, one prompt per inclusion that applies)
\* and the loops continue
C13_InvalidSyntax ==
    [][(pc = "for" /\ rawIdx <= Len(rawCompletions)
           /\ rawCompletions[rawIdx][testIdx] # <<>>
           /\ completeTest(rawCompletions[rawIdx][testIdx], TRUE) = NoSource)
          => LET test == rawCompletions[rawIdx][testIdx]
                 new  == TestIndex(collector'.tests, test)
                 made == (Len(heap) + 1)..Len(heap')
             IN  /\ validateLog' = validateLog
                 /\ new # 0
                 /\ collector'.tests[new].testSource = test
                 /\ collector'.tests[new].outcome = FAILED("Invalid syntax")
                 /\ lastCall'.testInfo = collector'.tests[new]
                 /\ pc' = "for"
                 /\ ret' = ret
                 /\ Cardinality(made) = Cardinality(Includers(prompt))
                                          + (IF heap[prompt].retry THEN 0 ELSE 1)
                 /\ worklist' = worklist \o [k \in 1..Cardinality(made) |-> Len(heap) + k]
                 /\ \A p \in made : heap'[p].retry =>
                        /\ heap'[p].err = "Invalid syntax"
                        /\ heap'[p].body = test]_vars

\* a candidate with unbalanced brackets was recorded under its raw text and the
\* retry prompt made from it was queried
C13_Witness ==
    /\ pc = "await"
    /\ heap[prompt].retry
    /\ heap[prompt].err = "Invalid syntax"
    /\ heap[prompt].body = <<"unbalanced">>
    /\ \E i \in 1..Len(collector.tests) :
          /\ collector.tests[i].testSource = <<"unbalanced">>
          /\ collector.tests[i].outcome = FAILED("Invalid syntax")
    /\ validateLog = <<>>

\* C14: when the template of a popped prompt (the primary template of a
\* Prompt, the retry template of a RetryPrompt) cannot be resolved, the call of
\* generateAndValidateTests ends with the error thrown: nothing is queried,
\* validated or recorded for that prompt, and nothing runs afterwards
C14_TemplateFailureAborts ==
    [][/\ (pc = "while" /\ worklist # <<>> /\ templateFileName(heap[Top]) \notin files)
             => /\ pc' = "threw"
                /\ ret'.state = "threw"
                /\ UNCHANGED <<queryLog, validateLog, collector, generatedPrompts, heap>>
       /\ pc = "threw" => UNCHANGED vars
       /\ ret'.state = "threw" => pc' = "threw"]_vars

\* the retry template is missing: the run went on until a RetryPrompt was
\* popped and ended there with the error
C14_Witness ==
    /\ pc = "threw"
    /\ ret.state = "threw"
    /\ files = {"templateFileName"}
    /\ heap[prompt].retry
    /\ queryLog # <<>>
    /\ \A i \in 1..Len(queryLog) : queryLog[i].prompt # prompt

\* the first fenced block of the raw completion of the call at hand
FirstBlock == exec(arg.rawCompletion)

\* the indices of the test cases ("it(") of a code, in order
TestStarts(code) ==
    LET at == {i \in 1..Len(code) : code[i] = "it("}
        RECURSIVE sorted(_)
        sorted(S) == IF S = {} THEN <<>> ELSE <<MinOf(S)>> \o sorted(S \ {MinOf(S)})
    IN  sorted(at)

\* the i-th test case of a code: from its start to the start of the next one,
\* or to the end of the code
TestCase(code, i) ==
    LET st == TestStarts(code)
    IN  SubSeq(code, st[i], IF i < Len(st) THEN st[i + 1] - 1 ELSE Len(code))

\* where the suite declaration of a code starts (0: there is none)
SuiteStart(code) ==
    IF "describe(" \in Range(code)
    THEN MinOf({i \in 1..Len(code) : code[i] = "describe("})
    ELSE 0

Extracted ==
    /\ arg.fn = "extractTestFromRawCompletion"
    /\ ret.state = "returned"

\* C17: extraction never returns an empty set; without a fenced block it
\* returns the raw completion alone; with one, the candidates are those of the
\* first block alone, whatever precedes and follows it
C17_FirstBlockOnly ==
    Extracted =>
        /\ ret.value # <<>>
        /\ ~FirstBlock.found => ret.value = <<arg.rawCompletion>>
        /\ FirstBlock.found =>
              /\ ret.value = extractTestFromRawCompletion(Block(FirstBlock.code))
              /\ \A i \in 1..Len(ret.value) :
                    \A t \in Range(ret.value[i]) : t \in Range(FirstBlock.code)

\* a raw completion with two blocks, the second with other code: only the
\* first contributed
C17_Witness ==
    /\ Extracted
    /\ FirstBlock.found
    /\ FirstBlock.code = <<"a">>
    /\ SubSeq(arg.rawCompletion, FirstBlock.end + 1, Len(arg.rawCompletion))
          = Block(<<"it(", "b">>)
    /\ ret.value = <<<<"a">>>>

\* C16 as stated: a block without test case gives one candidate, the block
\* itself
C16_NoTestWholeBlock ==
    (Extracted /\ FirstBlock.found /\ "it(" \notin Range(FirstBlock.code))
        => ret.value = <<FirstBlock.code>>

\* C15 as stated: a block with N > 1 test cases gives exactly N candidates, the
\* i-th being the text before the suite declaration, the suite header up to
\* the first test case, and the i-th test case
C15_OnePerTest ==
    (Extracted /\ FirstBlock.found /\ Len(TestStarts(FirstBlock.code)) > 1
       /\ SuiteStart(FirstBlock.code) # 0
       /\ SuiteStart(FirstBlock.code) < TestStarts(FirstBlock.code)[1])
        => LET code == FirstBlock.code
               head == SubSeq(code, 1, TestStarts(code)[1] - 1)
           IN  /\ Len(ret.value) = Len(TestStarts(code))
               /\ \A i \in 1..Len(ret.value) : ret.value[i] = head \o TestCase(code, i)

\* C15 as amended: the candidates are a Set, so the N texts are kept once each,
\* in the order of their first occurrence: at most N candidates, and N when
\* the test cases differ.  Each is a prefix and one test case.  With the suite
\* declaration before the first test case the prefix is the code up to the
\* first test case; without a suite declaration it is the same; with the
\* declaration after the first test case it is the code before the
\* declaration followed by the code between the first test case and the
\* declaration
C15_DistinctTests ==
    (Extracted /\ FirstBlock.found /\ Len(TestStarts(FirstBlock.code)) > 1)
        => LET code  == FirstBlock.code
               n     == Len(TestStarts(code))
               first == TestStarts(code)[1]
               suite == SuiteStart(code)
               head  == IF suite < first
                        THEN SubSeq(code, 1, first - 1)
                        ELSE SubSeq(code, 1, suite - 1) \o SubSeq(code, first, suite - 1)
               all   == [i \in 1..n |-> head \o TestCase(code, i)]
           IN  /\ Range(ret.value) = Range(all)
               /\ NoDup(ret.value)
               /\ Len(ret.value) <= n
               /\ NoDup(all) => ret.value = all
               /\ \A i, j \in 1..Len(ret.value) :
                     i < j => \E k, l \in 1..n :
                                 /\ k < l
                                 /\ all[k] = ret.value[i]
                                 /\ all[l] = ret.value[j]
                                 /\ \A m \in 1..(k - 1) : all[m] # all[k]
                                 /\ \A m \in 1..(l - 1) : all[m] # all[l]

\* a suite of two different tests gave two candidates, each with the header
C15_Witness ==
    /\ Extracted
    /\ FirstBlock.found
    /\ FirstBlock.code = <<"a", "describe(", "it(", "a", "it(">>
    /\ ret.value = << <<"a", "describe(", "it(", "a">>, <<"a", "describe(", "it(">> >>

Completed ==
    /\ arg.fn = "completeTest"
    /\ ret.state = "returned"

\* C18 as stated: a body that contains "describe(" is handed to bracket closing
\* as it is: no import block and no header is put before it
C18_BodyUnmodified ==
    (Completed /\ "describe(" \in Range(arg.body)) => ret.closed = arg.body

\* C18 as amended: no suite or test header is injected into a body that
\* contains "describe(", but the import block and a line break are put before
\* it whenever its first line does not contain "require"
C18_ImportsByFirstLine ==
    (Completed /\ "describe(" \in Range(arg.body)) =>
        /\ "require" \in Range(FirstLine(arg.body)) => ret.closed = arg.body
        /\ "require" \notin Range(FirstLine(arg.body))
              => ret.closed = imports \o <<"nl">> \o arg.body

\* a suite whose first line is the suite declaration came back with the import
\* block before it
C18_Witness ==
    /\ Completed
    /\ arg.body = <<"describe(", "it(", "assertA">>
    /\ ret.closed = imports \o <<"nl">> \o arg.body
    /\ ret.value = imports \o <<"nl">> \o arg.body \o <<"    })", "nl", "})">>

\* the text assemble returned
Assembled == arg.fn = "assemble" /\ ret.state = "returned"

\* C19: the passes of assemble applied to what assemble returned change
\* nothing: the normalisation is idempotent
C19_NormalizeIdempotent ==
    Assembled => Plain(normalize(ret.value)) = Plain(ret.value)

\* the rendered text of one part of the prompt: its tokens in the assembled
\* text, the line end that starts its paragraph included
Rendered(text, part) == Plain(SelectSeq(text, LAMBDA tok : tok.of = part))

Parts == {"signature", "docComments", "functionBody", "snippets",
          "instructions", "code"}

SectionOf(option) ==
    CASE option = "includeSnippets"     -> "snippets"
      [] option = "includeDocComment"   -> "docComments"
      [] option = "includeFunctionBody" -> "functionBody"

\* C20: enabling an option that is disabled changes the rendered text of no
\* part of the prompt but the option's own section
C20_SectionsIsolated ==
    Assembled =>
        \A option \in DOMAIN arg.options :
            ~arg.options[option] =>
                \A part \in Parts \ {SectionOf(option)} :
                    Rendered(assembleText([arg EXCEPT !.options[option] = TRUE]), part)
                        = Rendered(ret.value, part)

InclusionFlags == {"includeSnippets", "includeDocComment", "includeFunctionBody"}

IncluderOf(flag) ==
    CASE flag = "includeSnippets"     -> "SnippetIncluder"
      [] flag = "includeDocComment"   -> "DocCommentIncluder"
      [] flag = "includeFunctionBody" -> "FunctionBodyIncluder"

\* C21: applied to the prompt the driver is working on, with any completion and
\* any outcome, an inclusion refiner returns one new Prompt (not a RetryPrompt)
\* with the original's options but its own flag set and with no provenance when
\* its flag is not set in the original and its material is available, and
\* returns nothing otherwise
C21_InclusionRefiners ==
    (pc = "for" /\ prompt # 0) =>
        \A flag \in InclusionFlags, completion \in vocabulary, outcome \in Verdicts :
            LET out == refine(IncluderOf(flag), prompt, completion, outcome)
            IN  IF flag \in Includers(prompt)
                THEN /\ Len(out) = 1
                     /\ out[1].options = [heap[prompt].options EXCEPT ![flag] = TRUE]
                     /\ out[1].provenance = <<>>
                     /\ ~out[1].retry
                ELSE out = <<>>

\* the driver works on a prompt with a flag set, for a function with an empty
\* doc comment: one inclusion refiner fires on it, one does not for its flag,
\* one does not for want of material
C21_Witness ==
    /\ pc = "for"
    /\ prompt # 0
    /\ fun.docComment = ""
    /\ heap[prompt].options.includeSnippets
    /\ Includers(prompt) = {"includeDocComment"}
    /\ \E p \in Prompts :
          /\ heap[p].provenance # <<>>
          /\ heap[p].provenance[1].originalPrompt = prompt
          /\ heap[p].provenance[1].refiner = "DocCommentIncluder"

\* C22: applied to the prompt the driver is working on, with any completion and
\* any outcome, RetryWithError returns one RetryPrompt that holds the original,
\* the completion and the outcome's message when the outcome is FAILED and the
\* original is not a RetryPrompt, and returns nothing otherwise
C22_RetryWithError ==
    (pc = "for" /\ prompt # 0) =>
        \A completion \in vocabulary, outcome \in Verdicts :
            LET out == refine("RetryWithError", prompt, completion, outcome)
            IN  IF outcome.status = "FAILED" /\ ~heap[prompt].retry
                THEN /\ Len(out) = 1
                     /\ out[1].retry
                     /\ out[1].prev = prompt
                     /\ out[1].body = completion
                     /\ out[1].err = outcome.message
                     /\ out[1].options = heap[prompt].options
                     /\ out[1].provenance = <<>>
                ELSE out = <<>>

\* a RetryPrompt made from a failed test was queried, its candidate failed as
\* well, and no RetryPrompt was made from it
C22_Witness ==
    /\ pc = "for"
    /\ prompt # 0
    /\ heap[prompt].retry
    /\ ~heap[heap[prompt].prev].retry
    /\ heap[prompt].err = "expected 2 to equal 3"
    /\ lastCall.kind = "validateCompletion"
    /\ lastCall.asked
    /\ lastCall.testInfo.outcome.status = "FAILED"
    /\ \A p \in Prompts : heap[p].retry => heap[p].prev # prompt

\* C23: no step of the driver changes a prompt that exists: its options, its
\* fields, the function, the snippets and its assembled text stay as they are,
\* and its provenance list keeps what it holds and only grows at its end
C23_TextFixed ==
    [][/\ fun' = fun
       /\ snippets' = snippets
       /\ Len(heap') >= Len(heap)
       /\ \A p \in Prompts :
             /\ [heap'[p] EXCEPT !.provenance = <<>>]
                   = [heap[p] EXCEPT !.provenance = <<>>]
             /\ assemble(heap'[p]) = assemble(heap[p])
             /\ Len(heap'[p].provenance) >= Len(heap[p].provenance)
             /\ SubSeq(heap'[p].provenance, 1, Len(heap[p].provenance))
                   = heap[p].provenance]_vars

\* a prompt that a refiner made and the driver queried has absorbed the
\* provenance of a duplicate, and its text is still the text that was queried
C23_Witness ==
    /\ lastCall.kind = "skip"
    /\ lastCall.prompt # lastCall.previous
    /\ Len(heap[lastCall.previous].provenance) >= 2
    /\ heap[lastCall.previous].provenance[1].refiner
          # heap[lastCall.previous].provenance[2].refiner
    /\ \E q \in 1..Len(queryLog) :
          /\ queryLog[q].prompt = lastCall.previous
          /\ queryLog[q].text = assemble(heap[lastCall.previous])

Invocations == 1..MaxOf({Len(invocations.suspended), 1})

\* the worklist and the dedup map of a call, running or suspended
FrameOf(i) == IF i = invocations.self THEN locals ELSE invocations.suspended[i]

WorklistOf(i) == FrameOf(i).worklist

MapOf(i) == FrameOf(i).generatedPrompts

\* C24: the worklist and the dedup map of a call change only in a step that
\* call takes itself, and not while it waits for the model; they hold only
\* prompts that call created; a prompt hands its provenance only to a prompt of
\* its own call; and a popped prompt is skipped only for a text its own call
\* has queried in this run
C24_RunsIsolated ==
    [][/\ \A i \in Invocations :
             (WorklistOf(i)' # WorklistOf(i) \/ MapOf(i)' # MapOf(i))
                 => (i = invocations.self /\ invocations' = invocations
                     /\ pc # "await")
       /\ \A i \in Invocations :
             /\ \A k \in 1..Len(WorklistOf(i)) : owners[WorklistOf(i)[k]] = i
             /\ \A k \in 1..Len(MapOf(i)) : owners[MapOf(i)[k].prompt] = i
       /\ \A p \in Prompts :
             \A k \in 1..Len(heap[p].provenance) :
                 owners[heap[p].provenance[k].originalPrompt] = owners[p]
       /\ (lastCall' # lastCall /\ lastCall'.kind = "skip")
             => /\ owners[lastCall'.previous] = invocations.self
                /\ owners[lastCall'.prompt] = invocations.self
                /\ \E k \in 1..Len(generatedPrompts) :
                      /\ generatedPrompts[k].prompt = lastCall'.previous
                      /\ generatedPrompts[k].text = assemble(heap[lastCall'.prompt])
       /\ (pc = "while" /\ pc' = "await")
             => \A k \in 1..Len(generatedPrompts) :
                   generatedPrompts[k].text # assemble(heap[prompt'])]_vars

\* two calls have queried the same text, the first went on after the second
\* had started, and the second has skipped a duplicate of its own
C24_Witness ==
    /\ Len(invocations.suspended) = 2
    /\ invocations.self = 2
    /\ lastCall.kind = "skip"
    /\ owners[lastCall.previous] = 2
    /\ \E i, j \in 1..Len(queryLog) :
          /\ i < j
          /\ queryLog[i].text = queryLog[j].text
          /\ queryLog[i].temperature = queryLog[j].temperature
          /\ owners[queryLog[i].prompt] = 1
          /\ owners[queryLog[j].prompt] = 2
    /\ \E p \in Prompts : owners[p] = 1 /\ p > lastCall.previous

\* the place of a refiner in the fixed order
Place(name) ==
    CASE name = "SnippetIncluder"      -> 1
      [] name = "RetryWithError"       -> 2
      [] name = "DocCommentIncluder"   -> 3
      [] name = "FunctionBodyIncluder" -> 4

\* the refiners that fire on prompt p for an outcome
Firing(p, outcome) ==
    {IncluderOf(flag) : flag \in Includers(p)}
        \cup (IF outcome.status = "FAILED" /\ ~heap[p].retry
              THEN {"RetryWithError"} ELSE {})

\* C25: the prompts pushed for one candidate are those of the refiners that
\* fire, one each, in the order SnippetIncluder, RetryWithError,
\* DocCommentIncluder, FunctionBodyIncluder; and the prompt popped after a
\* query whose last validated candidate made refiners fire is the one of the
\* refiner that comes last in that order
C25_RefinerOrder ==
    [][/\ (pc = "for" /\ rawIdx <= Len(rawCompletions))
             => LET n     == Len(worklist') - Len(worklist)
                    new   == [k \in 1..n |-> heap'[worklist'[Len(worklist) + k]]]
                    names == [k \in 1..n |-> new[k].provenance[1].refiner]
                IN  /\ SubSeq(worklist', 1, Len(worklist)) = worklist
                    /\ \A k \in 1..n : Len(new[k].provenance) = 1
                    /\ \A k \in 1..n : new[k].provenance[1].originalPrompt = prompt
                    /\ Range(names) = Firing(prompt, lastCall'.testInfo.outcome)
                    /\ \A j, k \in 1..n : j < k => Place(names[j]) < Place(names[k])
       /\ (pc = "while" /\ worklist # <<>> /\ validated # {}
             /\ lastCall.kind = "validateCompletion" /\ lastCall.pushed > 0)
             => LET fired == Firing(prompt, lastCall.testInfo.outcome)
                IN  /\ heap[prompt'].provenance[1].originalPrompt = prompt
                    /\ Place(heap[prompt'].provenance[1].refiner)
                          = MaxOf({Place(name) : name \in fired})]_vars

\* all four refiners fired on the last candidate of a query: the function-body
\* variant was popped, the doc-comment variant, the retry and the snippet
\* variant wait below it in that order
C25_Witness ==
    /\ pc = "await"
    /\ Len(worklist) >= 3
    /\ heap[prompt].provenance # <<>>
    /\ heap[prompt].provenance[1].refiner = "FunctionBodyIncluder"
    /\ LET n == Len(worklist)
       IN  /\ heap[worklist[n]].provenance[1].refiner = "DocCommentIncluder"
           /\ heap[worklist[n - 1]].provenance[1].refiner = "RetryWithError"
           /\ heap[worklist[n - 2]].provenance[1].refiner = "SnippetIncluder"
           /\ \A k \in (n - 2)..n :
                 heap[worklist[k]].provenance[1] =
                     [heap[prompt].provenance[1] EXCEPT
                         !.refiner = heap[worklist[k]].provenance[1].refiner]

\* the text of the base prompt
BaseText == assemble(Prompt(defaultPromptOptions))

\* the queries of temperature t, in the order they were issued
QueriesAt(t) == SelectSeq(queryLog, LAMBDA q : q.temperature = t)

\* the run of temperature t has issued its first query
Queried(t) ==
    \/ t < tIdx
    \/ t = tIdx /\ pc # "start" /\ ~(pc = "while" /\ generatedPrompts = <<>>)

\* C26: a run starts with an empty dedup map, the flag cleared and a worklist
\* that holds one new prompt without inclusion flags and without provenance;
\* that prompt is the first the run queries, its text is queried once in the
\* run, and the temperatures are queried in their order
C26_FreshRun ==
    [][/\ pc = "start"
             => /\ generatedPrompts' = <<>>
                /\ ~generatedPassingTests'
                /\ heap' = Append(heap, heap'[Len(heap')])
                /\ worklist' = <<Len(heap')>>
                /\ \A flag \in InclusionFlags : ~heap'[Len(heap')].options[flag]
                /\ ~heap'[Len(heap')].retry
                /\ heap'[Len(heap')].provenance = <<>>
       /\ (pc = "while" /\ generatedPrompts = <<>> /\ worklist # <<>>)
             => /\ pc' = "await"
                /\ queryLog' = Append(queryLog, [temperature |-> tIdx,
                                                 text |-> BaseText,
                                                 prompt |-> worklist[1]])
       /\ \A t \in 1..NumTemps :
             LET queries == QueriesAt(t)'
             IN  IF Queried(t)'
                 THEN /\ queries # <<>>
                      /\ queries[1].text = BaseText
                      /\ \A k \in 2..Len(queries) : queries[k].text # BaseText
                 ELSE queries = <<>>
       /\ \A i, j \in 1..Len(queryLog') :
             i < j => queryLog'[i].temperature <= queryLog'[j].temperature]_vars

\* the first temperature found a passing test and queried refined prompts; the
\* second temperature has queried the base prompt all the same
C26_Witness ==
    /\ tIdx = 2
    /\ pc = "await"
    /\ Len(QueriesAt(1)) >= 2
    /\ Len(QueriesAt(2)) = 1
    /\ QueriesAt(2)[1].text = BaseText
    /\ QueriesAt(2)[1].prompt = prompt
    /\ prompt # QueriesAt(1)[1].prompt
    /\ \E k \in 1..Len(collector.tests) : collector.tests[k].outcome.status = "PASSED"

CompletedOf == arg.fn = "completeTest of" /\ ret.state = "returned"

\* the prompts of the same package: any of its functions, any inclusion flags
SamePackage(f) == {g \in Functions : g.packageName = f.packageName}

\* C27: with stubbed headers, what completeTest returns for a body is what it
\* returns for that body on every prompt of the same package, whatever the
\* access path and the inclusion flags; and a RetryPrompt made with that body
\* and an error message assembles to the same text whichever of these prompts
\* it was made from
C27_StubbedIndependent ==
    (CompletedOf /\ arg.stubOutHeaders) =>
        \A g \in SamePackage(arg.fun) :
            /\ completeTestOf(g, arg.body, TRUE) = ret.value
            /\ assembleRetry(g, arg.body, arg.err) = ret.retry

\* a body without suite declaration and without require was completed with
\* stubbed headers on a prompt with flags set, for a function whose package has
\* another function with another test header
C27_Witness ==
    /\ CompletedOf
    /\ arg.stubOutHeaders
    /\ arg.body = <<"assertA">>
    /\ arg.options.includeDocComment
    /\ ret.value # NoSource
    /\ "describe('test suite'" \in Range(ret.value)
    /\ \E g \in SamePackage(arg.fun) :
          /\ testHeaderOf(g) # testHeaderOf(arg.fun)
          /\ completeTestOf(g, arg.body, FALSE)
                # completeTestOf(arg.fun, arg.body, FALSE)

\* C28 as stated: completing a completed test changes nothing
C28_CompleteIdempotent ==
    (Completed /\ ret.value # NoSource) =>
        completeTest(ret.value, arg.stubOutHeaders) = ret.value

\* C28 as amended: completing a completed test changes nothing, except for a
\* body without suite declaration whose first line holds the word require:
\* its completed test starts with the suite header, so completing it again
\* puts the import block and a line break before it
C28_IdempotentButRequire ==
    (Completed /\ ret.value # NoSource) =>
        LET again == completeTest(ret.value, arg.stubOutHeaders)
        IN  IF /\ Range(arg.body) \cap HoldDescribe = {}
               /\ Range(FirstLine(arg.body)) \cap HoldRequire # {}
            THEN /\ again = imports \o <<"nl">> \o ret.value
                 /\ completeTest(again, arg.stubOutHeaders) = again
            ELSE again = ret.value

\* a body that starts with a require line was completed: the result starts
\* with the suite header, and completing it again gives another text
C28_Witness ==
    /\ Completed
    /\ arg.stubOutHeaders
    /\ arg.body = <<"require", "nl", "assertA">>
    /\ ret.value = <<"describe('test suite'", "it('test case'", "indent8", "require",
                     "nl", "assertA", "nl", "    })", "nl", "})">>
    /\ completeTest(ret.value, TRUE) # ret.value

\* the queries of temperature t for prompts that are not RetryPrompts
PlainQueriesAt(t) == SelectSeq(QueriesAt(t), LAMBDA q : ~heap[q.prompt].retry)

\* C29: in a run no two queries are for prompts that are not RetryPrompts and
\* have the same inclusion flags, so there are at most 8 such queries
C29_OneQueryPerFlags ==
    \A t \in 1..NumTemps :
        LET queries == PlainQueriesAt(t)
        IN  /\ \A i, j \in 1..Len(queries) :
                  i # j => FlagsSet(queries[i].prompt) # FlagsSet(queries[j].prompt)
            /\ Len(queries) <= 8

\* a run has queried seven combinations of flags and a RetryPrompt, and has
\* skipped a prompt whose combination it had queried
C29_Witness ==
    /\ Len(PlainQueriesAt(1)) = 7
    /\ Len(QueriesAt(1)) > 7
    /\ tIdx = 1
    /\ lastCall.kind = "skip"
    /\ ~heap[lastCall.prompt].retry
    /\ FlagsSet(lastCall.prompt) = FlagsSet(lastCall.previous)
    /\ lastCall.prompt # lastCall.previous

\* the queries whose for loops have run to their end
QueriesDone ==
    IF pc \in {"await", "for"}
    THEN SubSeq(queryLog, 1, Len(queryLog) - 1)
    ELSE queryLog

\* C30: recordPromptInfo has been called once for every query that has been
\* dealt with, in their order, with the prompt and the temperature of the query
\* and with an empty set of completions; a prompt that was skipped as a
\* duplicate is not among them
C30_EmptyCompletionsRecorded ==
    /\ Len(collector.prompts) = Len(QueriesDone)
    /\ \A k \in 1..Len(collector.prompts) :
          /\ collector.prompts[k].prompt = QueriesDone[k].prompt
          /\ collector.prompts[k].temperature = QueriesDone[k].temperature
          /\ collector.prompts[k].completions = {}
    /\ lastCall.kind = "skip"
          => \A k \in 1..Len(collector.prompts) :
                collector.prompts[k].prompt # lastCall.prompt

\* the model answered with two raw completions, candidates of both were
\* validated and one passed, and the prompt was recorded with no completions
C30_Witness ==
    /\ pc = "while"
    /\ prompt # 0
    /\ Len(rawCompletions) = 2
    /\ Cardinality(validated) >= 2
    /\ passedAt # {}
    /\ collector.prompts # <<>>
    /\ collector.prompts[Len(collector.prompts)].prompt = prompt
    /\ collector.prompts[Len(collector.prompts)].completions = {}
    /\ lastCall.kind = "validateCompletion"

\* the tests of the collector for which recordTestResult has not been called
Unrecorded ==
    {i \in 1..Len(collector.tests) :
        \A k \in 1..Len(collector.results) :
            collector.results[k].id # collector.tests[i].id}

\* C31: with several calls sharing the collector, no call waits inside
\* validateCompletion; a test without a recorded result is the one the running
\* call is validating at this moment; and when validateCompletion returns the
\* memoised TestInfo, a result for that test is already recorded, no result is
\* recorded and the validator is not asked, and the retries pushed carry the
\* recorded failure
C31_ValidateAtomic ==
    [][/\ \A j \in Invocations :
             j # invocations.self => invocations.suspended[j].pc # "validateTest"
       /\ \A i \in Unrecorded :
             /\ pc = "validateTest"
             /\ collector.tests[i].testSource
                    = sourceOrCompletion(rawCompletions[rawIdx][testIdx])
             /\ collector.tests[i].prompts = <<prompt>>
       /\ (pc = "for" /\ pc' = "for" /\ collector'.tests # collector.tests)
             => /\ lastCall'.known
                /\ Len(lastCall'.testInfo.prompts) > 1
                /\ \E k \in 1..Len(collector.results) :
                      /\ collector.results[k].id = lastCall'.testInfo.id
                      /\ collector.results[k].outcome = lastCall'.testInfo.outcome
                /\ collector'.results = collector.results
                /\ validateLog' = validateLog
                /\ \A p \in (Len(heap) + 1)..Len(heap') :
                      heap'[p].retry
                          => /\ lastCall'.testInfo.outcome.status = "FAILED"
                             /\ heap'[p].err = lastCall'.testInfo.outcome.message]_vars

\* the second call began while the first waited for its first answer; the
\* first then validated a failing test and asked the model again, and the
\* second was given the same test and got the memoised TestInfo
C31_Witness ==
    /\ Len(invocations.suspended) = 2
    /\ invocations.self = 2
    /\ invocations.suspended[1].pc = "await"
    /\ Len(heap) > 2
    /\ owners[1] = 1
    /\ owners[2] = 2
    /\ owners[3] = 1
    /\ lastCall.kind = "validateCompletion"
    /\ lastCall.known
    /\ lastCall.testInfo.prompts = <<1, 2>>
    /\ lastCall.testInfo.outcome.status = "FAILED"
    /\ Unrecorded = {}

====
